---- MODULE Spec2Model ----
(***************************************************************************)
(* Model of the alerting and subscription-delivery pipeline of             *)
(* orbital-command-v3 (src/server.js): the reading cache                   *)
(* (getSpaceWeather), the alert evaluator (checkAlerts, lastAlerts), the   *)
(* subscription store kept in the 'LINE訂閱' sheet (addSubscription,       *)
(* removeSubscription, getSubscriptions, getSubscribersByType), the       *)
(* timer jobs and admin requests that fan out pushes (dailyPush,           *)
(* recordData, broadcast, test-push), the chat commands that subscribe and *)
(* cancel, and the /webhook event loop.                                    *)
(*                                                                         *)
(* Node runs the program on one event loop: code between two awaits is     *)
(* atomic, and every await on real I/O (upstream fetch, sheet read/write,  *)
(* push) is a point where other timers and requests run.  One action of    *)
(* the model is one such atomic section.                                   *)
(*                                                                         *)
(* Units: time is in seconds (Date.now() / 1000); Kp is in tenths.         *)
(***************************************************************************)
EXTENDS Integers, Sequences, FiniteSets, TLC

\* ------------------------------------------------------------------ bounds
MaxTicks == 2         \* clock advances per behaviour
MaxPasses == 2        \* checkAlerts timer firings per behaviour
MaxGsw == 3           \* direct getSpaceWeather calls per behaviour
MaxOps == 2           \* subscription-store calls per behaviour
MaxJobs == 2          \* runs of dailyPush, recordData and admin requests per behaviour
MaxRows == 5          \* rows the subscription sheet may grow to
MaxChatJobs == 1      \* runs of dailyPush beside the chat commands
MaxHooks == 1         \* requests to /webhook per behaviour
MaxEvents == 2        \* events in the body of one /webhook request
StartTime == 1790000000   \* Date.now() at process start, in seconds

\* -------------------------------------------------------- program constants
CACHE_DURATION == 60            \* 60 * 1000 ms
ALERT_COOLDOWN == 60 * 60       \* 60 * 60 * 1000 ms
CHECK_INTERVAL == 5 * 60        \* setInterval(checkAlerts, 5 * 60 * 1000)
KP_THRESHOLD == 50              \* Kp >= 5, in tenths

\* ------------------------------------------------------------ input domains
Users == {"U1", "U2"}
ACTIVE == "active"              \* '啟用'
INACTIVE == "inactive"          \* '停用'
KpValues == {20, 50}            \* 2.0 (the default sub-record) and 5.0
FlareClasses == {"B", "X"}
CmeCounts == {1}                \* events in a snapshot's cme list (the sentinel has none)
Deltas == {1, 59}               \* seconds that pass between two steps
\* seconds between two firings of the checkAlerts timer that are followed:
\* 1, 12 and 13 periods of the interval
TimerDeltas == {CHECK_INTERVAL, ALERT_COOLDOWN, ALERT_COOLDOWN + CHECK_INTERVAL}

VARIABLES
    clock,              \* Date.now()
    ticks,              \* number of clock advances so far
    doc,                \* "null" | "unloaded" | "ready"
    lineToken,          \* LINE_CHANNEL_ACCESS_TOKEN is set
    logSheet,           \* doc.sheetsByTitle['推播紀錄'] exists
    cachedSpaceWeather, \* the cached snapshot, NoSnap for null
    cacheTime,
    fetches,            \* upstream aggregations started so far
    lastAlerts,         \* [kp, flare, cme, radiation]
    rows,               \* the 'LINE訂閱' sheet
    pushLog,            \* the '推播紀錄' sheet: number of rows per user id
    passes,             \* the checkAlerts runs
    gsw,                \* direct getSpaceWeather calls (request handlers)
    ops,                \* subscription-store calls
    jobs,               \* runs of dailyPush, recordData and the admin handlers
    history,            \* the four history sheets: rows appended per category
    agg                 \* one aggregation inside getSpaceWeather, source by source

vars == <<clock, ticks, doc, lineToken, logSheet, cachedSpaceWeather, cacheTime, fetches,
          lastAlerts, rows, pushLog, passes, gsw, ops, jobs, history, agg>>

\* ------------------------------------------------------------------ helpers
Count(s, x) == Cardinality({i \in 1..Len(s) : s[i] = x})

Abs(n) == IF n < 0 THEN -n ELSE n

\* ---------------------------------------------------------------- snapshots
NoSnap == [success |-> FALSE, id |-> 0, kp |-> 0, flareClass |-> "none"]

\* the object built by getSpaceWeather's try block
Snapshot(id, k, f) == [success |-> TRUE, id |-> id, kp |-> k, flareClass |-> f]

\* the object built by getSpaceWeather's catch block: no kp, no xray
Sentinel(id) == [success |-> FALSE, id |-> id, kp |-> 0, flareClass |-> "none"]

\* ------------------------------------------------------- subscription store
Row(u, t, pt, st) == [userId |-> u, type |-> t, pushTime |-> pt, status |-> st]

FilterRowsAnyStatus(rs, t, st) ==
    LET sel == SelectSeq(rs, LAMBDA r : r.type = t)
    IN [k \in 1..Len(sel) |-> [userId |-> sel[k].userId, pushTime |-> sel[k].pushTime]]

FilterRowsAnyType(rs, t, st) ==
    LET sel == SelectSeq(rs, LAMBDA r : r.status = st)
    IN [k \in 1..Len(sel) |-> [userId |-> sel[k].userId, pushTime |-> sel[k].pushTime]]

RECURSIVE FilterRows(_, _, _)
FilterRows(rs, t, st) ==
    IF rs = <<>> THEN <<>>
    ELSE LET r == Head(rs)
             rest == FilterRows(Tail(rs), t, st)
         IN IF r.type = t /\ r.status = st
            THEN <<[userId |-> r.userId, pushTime |-> r.pushTime]>> \o rest
            ELSE rest

\* getSubscribersByType: readOk is whether sheet.getRows() resolved
getSubscribersByTypeAnyStatus(d, rs, t, readOk) ==
    IF d = "null" THEN <<>>
    ELSE IF d = "unloaded" \/ ~readOk THEN <<>>
    ELSE FilterRows(rs, t, ACTIVE) \o FilterRows(rs, t, INACTIVE)

getSubscribersByType(d, rs, t, readOk) ==
    IF d = "null" THEN <<>>
    ELSE IF d = "unloaded" \/ ~readOk THEN <<>>
    ELSE FilterRows(rs, t, ACTIVE)

\* ------------------------------------------------------------ checkAlerts
\* a run of checkAlerts: its position, its locals (spaceWeather, with cme
\* the number of events in spaceWeather.cme; now;
\* subscribers, the loop index), the users it has called linePush for and,
\* until the flare subscribers are read, whether a push of the aurora loop
\* returned true
IdlePass == [pc |-> "idle", fid |-> 0, gsNow |-> 0, now |-> 0, sw |-> NoSnap, cme |-> 0,
             subscribers |-> <<>>, idx |-> 0, sentKp |-> <<>>, sentFlare |-> <<>>,
             kpDelivered |-> FALSE]

\* spaceWeather.kp?.kp >= 5
KpCrossed(sw) == sw.success /\ sw.kp >= KP_THRESHOLD

\* spaceWeather.xray?.flareClass === 'X'
FlareCrossed(sw) == sw.success /\ sw.flareClass = "X"

\* (now - lastAlerts.x) > ALERT_COOLDOWN
ArmedLoose(now, last) == (now - last) >= ALERT_COOLDOWN

Armed(now, last) == (now - last) > ALERT_COOLDOWN

\* checkAlerts has returned: its locals are dead; what it sent, and the time
\* it sent it for, are kept as history
Finish(pr) == [pr EXCEPT !.pc = "done", !.fid = 0, !.gsNow = 0, !.sw = NoSnap, !.cme = 0,
                         !.subscribers = <<>>, !.idx = 0, !.kpDelivered = FALSE,
                         !.now = IF pr.sentKp = <<>> /\ pr.sentFlare = <<>>
                                 THEN 0 ELSE pr.now]

\* control reaches the flare test (line 1745) with lastAlerts = la
ToFlare(pr, la) ==
    IF FlareCrossed(pr.sw) /\ Armed(pr.now, la.flare)
    THEN [pr EXCEPT !.pc = "flareSubs", !.subscribers = <<>>, !.idx = 0]
    ELSE Finish(pr)

\* control reaches the Kp test (line 1726) with lastAlerts = la
ToKpUnarmed(pr, la) ==
    IF KpCrossed(pr.sw) THEN [pr EXCEPT !.pc = "kpSubs"] ELSE ToFlare(pr, la)

ToKp(pr, la) ==
    IF KpCrossed(pr.sw) /\ Armed(pr.now, la.kp)
    THEN [pr EXCEPT !.pc = "kpSubs"]
    ELSE ToFlare(pr, la)

\* ---------------------------------------------------------------- linePush
\* what one linePush call can do: no token; the channel rejects (res.ok false);
\* fetch throws; accepted and logged; accepted with no sheet to log to;
\* accepted but the log row's addRow (or doc.sheetsByTitle) throws
LinePushOutcomes(tok, d, ls) ==
    IF ~tok THEN {"notoken"}
    ELSE {"rejected", "neterr"} \cup
         (IF d = "null" THEN {"nolog"}
          ELSE IF d = "unloaded" THEN {"logfail"}
          ELSE IF ls THEN {"logged", "logfail"} ELSE {"nolog"})

\* res.ok: the push API took the message
ChannelAccepted(o) == o \in {"logged", "nolog", "logfail"}

\* the value linePush returns
LinePushResult(o) == o \in {"logged", "nolog"}

\* the '推播紀錄' sheet after the call
LinePushLog(log, u, o) ==
    IF o = "logged" THEN [log EXCEPT ![u] = @ + 1] ELSE log

\* ------------------------------------------------------- cache assignment
\* lines 834-835 run only when the try block reached them
StoreResultBug(old, result) == result

StoreResult(old, result) == IF result.success THEN result ELSE old

StoreTimeAlways(oldT, now, result) == now

StoreTime(oldT, now, result) == IF result.success THEN now ELSE oldT

\* ------------------------------------------------------------------- time
Tick ==
    /\ ticks < MaxTicks
    /\ \E d \in Deltas : clock' = clock + d
    /\ ticks' = ticks + 1
    /\ UNCHANGED <<doc, lineToken, logSheet, cachedSpaceWeather, cacheTime, fetches,
                   lastAlerts, rows, pushLog, passes, gsw, ops,
                   jobs, history, agg>>

\* ---------------------------------------------------- checkAlerts, by step
\* the interval timer set by start() fires, d seconds after the firing
\* modelled before it (the firings in between are not followed): checkAlerts
\* runs up to the await inside getSpaceWeather(true)
StartCheckAlerts(p) ==
    /\ passes[p].pc = "idle"
    /\ \A q \in 1..(p - 1) : passes[q].pc # "idle"
    /\ \E d \in TimerDeltas : clock' = clock + d
    /\ fetches' = fetches + 1
    /\ passes' = [passes EXCEPT ![p] = [@ EXCEPT !.pc = "fetch", !.gsNow = clock',
                                                 !.fid = fetches + 1]]
    /\ UNCHANGED <<ticks, doc, lineToken, logSheet, cachedSpaceWeather, cacheTime,
                   lastAlerts, rows, pushLog, gsw, ops,
                   jobs, history, agg>>

\* Promise.all settles: getSpaceWeather stores and returns, checkAlerts reads
\* the clock, tests Kp (and, failing that, the flare class) and suspends in
\* getSubscribersByType or returns
AlertFetched(p) ==
    /\ passes[p].pc = "fetch"
    /\ \E ok \in BOOLEAN, k \in KpValues, f \in FlareClasses, cme \in CmeCounts :
         LET pr == passes[p]
             result == IF ok THEN Snapshot(pr.fid, k, f) ELSE Sentinel(pr.fid)
         IN /\ cachedSpaceWeather' = StoreResult(cachedSpaceWeather, result)
            /\ cacheTime' = StoreTime(cacheTime, pr.gsNow, result)
            /\ passes' = [passes EXCEPT ![p] =
                 ToKp([pr EXCEPT !.sw = result, !.now = clock,
                                 !.cme = IF ok THEN cme ELSE 0], lastAlerts)]
    /\ UNCHANGED <<clock, ticks, doc, lineToken, logSheet, fetches, lastAlerts, rows,
                   pushLog, gsw, ops,
                   jobs, history, agg>>

\* getSubscribersByType('aurora') resolves
KpSubscribers(p) ==
    /\ passes[p].pc = "kpSubs"
    /\ \E readOk \in BOOLEAN :
         LET pr == passes[p]
             subs == getSubscribersByType(doc, rows, "aurora", readOk)
         IN passes' = [passes EXCEPT ![p] =
              IF Len(subs) > 0
              THEN [pr EXCEPT !.pc = "kpPush", !.subscribers = subs, !.idx = 1]
              ELSE ToFlare(pr, lastAlerts)]
    /\ UNCHANGED <<clock, ticks, doc, lineToken, logSheet, cachedSpaceWeather, cacheTime,
                   fetches, lastAlerts, rows, pushLog, gsw, ops,
                   jobs, history, agg>>

\* one linePush of the aurora loop returns; after the last one
\* lastAlerts.kp = now and control reaches the flare test
KpPush(p) ==
    /\ passes[p].pc = "kpPush"
    /\ \E o \in LinePushOutcomes(lineToken, doc, logSheet) :
         LET pr == passes[p]
             u == pr.subscribers[pr.idx].userId
             sent == [pr EXCEPT !.sentKp = Append(@, u),
                                !.kpDelivered = @ \/ LinePushResult(o)]
             la == [lastAlerts EXCEPT !.kp = pr.now]
         IN /\ pushLog' = LinePushLog(pushLog, u, o)
            /\ IF pr.idx < Len(pr.subscribers)
               THEN /\ passes' = [passes EXCEPT ![p] = [sent EXCEPT !.idx = @ + 1]]
                    /\ UNCHANGED lastAlerts
               ELSE /\ lastAlerts' = la
                    /\ passes' = [passes EXCEPT ![p] = ToFlare(sent, la)]
    /\ UNCHANGED <<clock, ticks, doc, lineToken, logSheet, cachedSpaceWeather, cacheTime,
                   fetches, rows, gsw, ops,
                   jobs, history, agg>>

\* getSubscribersByType('flare') resolves
FlareSubscribers(p) ==
    /\ passes[p].pc = "flareSubs"
    /\ \E readOk \in BOOLEAN :
         LET pr == passes[p]
             subs == getSubscribersByType(doc, rows, "flare", readOk)
         IN passes' = [passes EXCEPT ![p] =
              IF Len(subs) > 0
              THEN [pr EXCEPT !.pc = "flarePush", !.subscribers = subs, !.idx = 1,
                              !.kpDelivered = FALSE]
              ELSE Finish(pr)]
    /\ UNCHANGED <<clock, ticks, doc, lineToken, logSheet, cachedSpaceWeather, cacheTime,
                   fetches, lastAlerts, rows, pushLog, gsw, ops,
                   jobs, history, agg>>

\* one linePush of the flare loop returns; after the last one
\* lastAlerts.flare = now and checkAlerts returns
FlarePush(p) ==
    /\ passes[p].pc = "flarePush"
    /\ \E o \in LinePushOutcomes(lineToken, doc, logSheet) :
         LET pr == passes[p]
             u == pr.subscribers[pr.idx].userId
             sent == [pr EXCEPT !.sentFlare = Append(@, u)]
         IN /\ pushLog' = LinePushLog(pushLog, u, o)
            /\ IF pr.idx < Len(pr.subscribers)
               THEN /\ passes' = [passes EXCEPT ![p] = [sent EXCEPT !.idx = @ + 1]]
                    /\ UNCHANGED lastAlerts
               ELSE /\ lastAlerts' = [lastAlerts EXCEPT !.flare = pr.now]
                    /\ passes' = [passes EXCEPT ![p] = Finish(sent)]
    /\ UNCHANGED <<clock, ticks, doc, lineToken, logSheet, cachedSpaceWeather, cacheTime,
                   fetches, rows, gsw, ops,
                   jobs, history, agg>>

\* a call made by a request handler: /api/space-weather (refresh or not),
\* handleTextMessage (never forced), /api/admin/test-push (forced)
IdleGsw == [pc |-> "idle", force |-> FALSE, now |-> 0, fid |-> 0,
            result |-> NoSnap, fetched |-> FALSE]

\* a call of addSubscription or removeSubscription; type "" is "no type"
IdleOp == [kind |-> "none", pc |-> "idle", via |-> "direct", userId |-> "",
           type |-> "", pushTime |-> "", snap |-> <<>>, idx |-> 0,
           result |-> "none", http |-> "none", dirty |-> FALSE,
           text |-> <<>>, fid |-> 0, gsNow |-> 0]

\* every user id a sheet row or a request may carry
Subscribers == Users \cup {"U3"}

\* the history sheets recordData writes, in the order it writes them
Categories == <<"solarWind", "kp", "iss", "radiation">>

\* a run of dailyPush or recordData, or a request to /api/admin/broadcast or
\* /api/admin/test-push: its position and its locals.  Kept as history:
\* inTurn (every earlier job had ended when this one began), listed (the
\* user ids of the list it fanned out over), attempted (the user ids, or
\* for recordData the categories, it called linePush or addRow for, in
\* order), results (what linePush returned), accepted (the pushes of a
\* broadcast the channel answered with res.ok), pauses (the 100 ms waits it made after a
\* push) and written (rows added)
IdleJob == [kind |-> "none", pc |-> "idle", now |-> 0, hour |-> "", type |-> "",
            message |-> FALSE, inTurn |-> FALSE, subscribers |-> <<>>, idx |-> 0,
            listed |-> <<>>, attempted |-> <<>>, results |-> <<>>, sent |-> 0,
            total |-> 0, fid |-> 0, gsNow |-> 0, sw |-> NoSnap, iss |-> FALSE,
            written |-> <<>>, response |-> "none", pauses |-> 0, accepted |-> 0]

\* one aggregation: the sources whose fetcher returned null, the readings
\* of the others, and the object the try block builds
IdleAgg == [pc |-> "idle", failed |-> {}, kp |-> 0, flareClass |-> "none",
            result |-> [success |-> FALSE]]

\* ------------------------------------------------------------ initial state
\* module-level state of a process that has just run start()
InitCommon ==
    /\ clock = StartTime
    /\ ticks = 0
    /\ cachedSpaceWeather = NoSnap
    /\ cacheTime = 0
    /\ fetches = 0
    /\ lastAlerts = [kp |-> 0, flare |-> 0, cme |-> 0, radiation |-> 0]
    /\ pushLog = [u \in Subscribers |-> 0]
    /\ passes = [p \in 1..MaxPasses |-> IdlePass]
    /\ gsw = [c \in 1..MaxGsw |-> IdleGsw]
    /\ ops = [c \in 1..MaxOps |-> IdleOp]
    /\ jobs = [j \in 1..MaxJobs |-> IdleJob]
    /\ history = [c \in {Categories[i] : i \in 1..Len(Categories)} |-> 0]
    /\ agg = IdleAgg

\* subscription sheets the alert evaluator is run against
AlertTables ==
    { <<Row("U1", "aurora", "", ACTIVE), Row("U2", "aurora", "", ACTIVE),
        Row("U1", "flare", "", INACTIVE), Row("U2", "flare", "", ACTIVE),
        Row("U3", "cme", "", ACTIVE)>> }

InitAlerts ==
    /\ InitCommon
    /\ doc = "ready"
    /\ lineToken = TRUE
    /\ logSheet = FALSE
    /\ rows \in AlertTables

NextAlerts ==
    \/ \E p \in 1..MaxPasses : StartCheckAlerts(p)
    \/ \E p \in 1..MaxPasses : AlertFetched(p)
    \/ \E p \in 1..MaxPasses : KpSubscribers(p)
    \/ \E p \in 1..MaxPasses : KpPush(p)
    \/ \E p \in 1..MaxPasses : FlareSubscribers(p)
    \/ \E p \in 1..MaxPasses : FlarePush(p)

SpecAlerts == InitAlerts /\ [][NextAlerts]_vars

\* ------------------------------------------------- getSpaceWeather, by step
\* (now - cacheTime) < CACHE_DURATION
CacheFreshBug(now, t) == (now - t) > CACHE_DURATION

CacheFresh(now, t) == (now - t) < CACHE_DURATION

\* the call runs up to its first await: it returns the cached object, or
\* starts the nine upstream fetches and suspends in Promise.all
GswCall(c) ==
    /\ gsw[c].pc = "idle"
    /\ \A b \in 1..(c - 1) : gsw[b].pc # "idle"
    /\ \E force \in BOOLEAN :
         IF ~force /\ cachedSpaceWeather # NoSnap /\ CacheFresh(clock, cacheTime)
         THEN /\ gsw' = [gsw EXCEPT ![c] = [@ EXCEPT !.pc = "done", !.force = force,
                                 !.now = clock, !.result = cachedSpaceWeather]]
              /\ UNCHANGED fetches
         ELSE /\ gsw' = [gsw EXCEPT ![c] = [@ EXCEPT !.pc = "fetch", !.force = force,
                                 !.now = clock, !.fid = fetches + 1, !.fetched = TRUE]]
              /\ fetches' = fetches + 1
    /\ UNCHANGED <<clock, ticks, doc, lineToken, logSheet, cachedSpaceWeather,
                   cacheTime, lastAlerts, rows, pushLog, passes, ops,
                   jobs, history, agg>>

\* Promise.all settles: the try block stores and returns the snapshot, or
\* the catch block returns the sentinel
GswFetched(c) ==
    /\ gsw[c].pc = "fetch"
    /\ \E ok \in BOOLEAN, k \in {KP_THRESHOLD}, f \in {"B"} :
         LET result == IF ok THEN Snapshot(gsw[c].fid, k, f) ELSE Sentinel(gsw[c].fid)
         IN /\ cachedSpaceWeather' = StoreResult(cachedSpaceWeather, result)
            /\ cacheTime' = StoreTime(cacheTime, gsw[c].now, result)
            /\ gsw' = [gsw EXCEPT ![c] = [@ EXCEPT !.pc = "done", !.result = result]]
    /\ UNCHANGED <<clock, ticks, doc, lineToken, logSheet, fetches, lastAlerts,
                   rows, pushLog, passes, ops,
                   jobs, history, agg>>

InitCache ==
    /\ InitCommon
    /\ doc = "ready"
    /\ lineToken = TRUE
    /\ logSheet = TRUE
    /\ rows = <<>>

NextCache ==
    \/ Tick
    \/ \E c \in 1..MaxGsw : GswCall(c)
    \/ \E c \in 1..MaxGsw : GswFetched(c)

SpecCache == InitCache /\ [][NextCache]_vars

\* ------------------------------------------------------ initGoogleSheets
\* doc after start() has awaited initGoogleSheets: null without credentials;
\* with credentials doc is assigned before loadInfo is awaited (line 113) and
\* the catch block leaves it assigned
initGoogleSheets(creds, loadOk) ==
    IF ~creds THEN "null" ELSE IF loadOk THEN "ready" ELSE "unloaded"

\* ------------------------------------------- subscription store, by step
StoreTypes == {"daily", "aurora"}

\* the pushTime handleTextMessage passes for a type (pushTime || '')
PushTimes(t) == IF t = "daily" THEN {"08:00", "20:00"} ELSE {""}

\* the call has returned: its locals are dead
Return(o, res) == [o EXCEPT !.pc = "done", !.result = res, !.snap = <<>>, !.idx = 0]

\* rows.find(row => userId matches && type matches): its index, 0 for none
FindExisting(snap, u, t) ==
    LET hits == {i \in 1..Len(snap) : snap[i].userId = u /\ snap[i].type = t}
    IN IF hits = {} THEN 0 ELSE CHOOSE i \in hits : \A j \in hits : i <= j

\* the test of removeSubscription's loop body (lines 1358-1359)
MatchesAnyType(r, u, t) == r.userId = u

Matches(r, u, t) == r.userId = u /\ (t = "" \/ r.type = t)

\* the next row at or after `from` the loop of removeSubscription saves
NextMatchFirstOnly(snap, u, t, from) ==
    LET hits == {i \in 1..Len(snap) : Matches(snap[i], u, t)}
    IN IF from = 1 /\ hits # {} THEN CHOOSE i \in hits : \A j \in hits : i <= j ELSE 0

NextMatch(snap, u, t, from) ==
    LET hits == {i \in from..Len(snap) : Matches(snap[i], u, t)}
    IN IF hits = {} THEN 0 ELSE CHOOSE i \in hits : \A j \in hits : i <= j

\* getSubscriptions: the active records of one user
getSubscriptions(d, rs, u, readOk) ==
    IF d # "ready" \/ ~readOk THEN <<>>
    ELSE SelectSeq(rs, LAMBDA r : r.userId = u /\ r.status = ACTIVE)

\* a write that touches user u's records reaches the sheet while a
\* removeSubscription of u is between its read and its return
MarkDirty(os, u, me) ==
    [c \in DOMAIN os |->
        IF c # me /\ os[c].kind = "remove" /\ os[c].pc = "remSave" /\ os[c].userId = u
        THEN [os[c] EXCEPT !.dirty = TRUE] ELSE os[c]]

\* addSubscription is called and runs to `await sheet.getRows()`
AddStart(c) ==
    /\ ops[c].pc = "idle"
    /\ \A b \in 1..(c - 1) : ops[b].pc # "idle"
    /\ \E u \in Users, t \in StoreTypes :
        \E pt \in PushTimes(t) :
         LET o == [ops[c] EXCEPT !.kind = "add", !.userId = u, !.type = t, !.pushTime = pt]
         IN ops' = [ops EXCEPT ![c] =
                IF doc = "null" THEN Return(o, "ok")
                ELSE IF doc = "unloaded" THEN Return(o, "fail")
                ELSE [o EXCEPT !.pc = "addRead"]]
    /\ UNCHANGED <<clock, ticks, doc, lineToken, logSheet, cachedSpaceWeather,
                   cacheTime, fetches, lastAlerts, rows, pushLog, passes, gsw,
                   jobs, history, agg>>

\* getRows settles: on an error the catch block returns; otherwise the row
\* is looked up and the call suspends in existing.save() or sheet.addRow()
AddRead(c) ==
    /\ ops[c].pc = "addRead"
    /\ \E readOk \in BOOLEAN :
         LET o == ops[c]
             i == FindExisting(rows, o.userId, o.type)
         IN ops' = [ops EXCEPT ![c] =
                IF ~readOk THEN Return(o, "fail")
                ELSE IF i # 0 THEN [o EXCEPT !.pc = "addSave", !.snap = rows, !.idx = i]
                ELSE [o EXCEPT !.pc = "addAppend"]]
    /\ UNCHANGED <<clock, ticks, doc, lineToken, logSheet, cachedSpaceWeather,
                   cacheTime, fetches, lastAlerts, rows, pushLog, passes, gsw,
                   jobs, history, agg>>

\* existing.save() settles: the row object, as read and then set, is written
AddSave(c) ==
    /\ ops[c].pc = "addSave"
    /\ \E ok \in BOOLEAN :
         LET o == ops[c]
         IN IF ok
            THEN /\ rows' = [rows EXCEPT ![o.idx] =
                        [o.snap[o.idx] EXCEPT !.pushTime = o.pushTime, !.status = ACTIVE]]
                 /\ ops' = [MarkDirty(ops, o.userId, c) EXCEPT ![c] = Return(o, "ok")]
            ELSE /\ ops' = [ops EXCEPT ![c] = Return(o, "fail")]
                 /\ UNCHANGED rows
    /\ UNCHANGED <<clock, ticks, doc, lineToken, logSheet, cachedSpaceWeather,
                   cacheTime, fetches, lastAlerts, pushLog, passes, gsw,
                   jobs, history, agg>>

\* sheet.addRow() settles
AddAppend(c) ==
    /\ ops[c].pc = "addAppend"
    /\ \E ok \in BOOLEAN :
         LET o == ops[c]
         IN IF ok /\ Len(rows) < MaxRows
            THEN /\ rows' = Append(rows, Row(o.userId, o.type, o.pushTime, ACTIVE))
                 /\ ops' = [MarkDirty(ops, o.userId, c) EXCEPT ![c] = Return(o, "ok")]
            ELSE /\ ops' = [ops EXCEPT ![c] = Return(o, "fail")]
                 /\ UNCHANGED rows
    /\ UNCHANGED <<clock, ticks, doc, lineToken, logSheet, cachedSpaceWeather,
                   cacheTime, fetches, lastAlerts, pushLog, passes, gsw,
                   jobs, history, agg>>

\* removeSubscription(u, t) runs to `await sheet.getRows()`
RemoveCall(o) ==
    IF doc = "null" THEN Return(o, "ok")
    ELSE IF doc = "unloaded" THEN Return(o, "fail")
    ELSE [o EXCEPT !.pc = "remRead"]

\* removeSubscription is called: by handleTextMessage with no type, or with
\* a type as its signature allows
RemoveStart(c) ==
    /\ ops[c].pc = "idle"
    /\ \A b \in 1..(c - 1) : ops[b].pc # "idle"
    /\ \E u \in Users, t \in StoreTypes \cup {""} :
         ops' = [ops EXCEPT ![c] =
                    RemoveCall([ops[c] EXCEPT !.kind = "remove", !.userId = u, !.type = t])]
    /\ UNCHANGED <<clock, ticks, doc, lineToken, logSheet, cachedSpaceWeather,
                   cacheTime, fetches, lastAlerts, rows, pushLog, passes, gsw,
                   jobs, history, agg>>

\* handleUnfollow: removeSubscription(userId), every type
handleUnfollowDailyOnly(o) == RemoveCall([o EXCEPT !.type = "daily"])

handleUnfollow(o) == RemoveCall(o)

\* POST /webhook with one unfollow event of user u: without the access token
\* the request is answered at once; with a bad signature it is refused;
\* otherwise handleUnfollow calls removeSubscription(userId)
WebhookUnfollow(c) ==
    /\ ops[c].pc = "idle"
    /\ \A b \in 1..(c - 1) : ops[b].pc # "idle"
    /\ \E u \in Users, sigOk \in BOOLEAN :
         LET o == [ops[c] EXCEPT !.kind = "remove", !.via = "webhook", !.userId = u]
             called == handleUnfollow(o)
         IN ops' = [ops EXCEPT ![c] =
                IF ~lineToken THEN [o EXCEPT !.pc = "done", !.http = "200 no token"]
                ELSE IF ~sigOk THEN [o EXCEPT !.pc = "done", !.http = "401"]
                ELSE IF called.pc = "done" THEN [called EXCEPT !.http = "200"]
                ELSE called]
    /\ UNCHANGED <<clock, ticks, doc, lineToken, logSheet, cachedSpaceWeather,
                   cacheTime, fetches, lastAlerts, rows, pushLog, passes, gsw,
                   jobs, history, agg>>

\* removeSubscription returns to its caller; the webhook then answers 200
RemoveReturn(o, res) ==
    IF o.via = "webhook" THEN [Return(o, res) EXCEPT !.http = "200"] ELSE Return(o, res)

\* getRows settles: the loop runs to the first matching row's save()
RemoveRead(c) ==
    /\ ops[c].pc = "remRead"
    /\ \E readOk \in BOOLEAN :
         LET o == ops[c]
             i == NextMatch(rows, o.userId, o.type, 1)
         IN ops' = [ops EXCEPT ![c] =
                IF ~readOk THEN RemoveReturn(o, "fail")
                ELSE IF i = 0 THEN RemoveReturn(o, "ok")
                ELSE [o EXCEPT !.pc = "remSave", !.snap = rows, !.idx = i]]
    /\ UNCHANGED <<clock, ticks, doc, lineToken, logSheet, cachedSpaceWeather,
                   cacheTime, fetches, lastAlerts, rows, pushLog, passes, gsw,
                   jobs, history, agg>>

\* row.save() settles: the row object, as read and with 狀態 set to 停用, is
\* written, and the loop runs on to the next matching row or to the return
RemoveSave(c) ==
    /\ ops[c].pc = "remSave"
    /\ \E ok \in BOOLEAN :
         LET o == ops[c]
             i == NextMatch(o.snap, o.userId, o.type, o.idx + 1)
         IN IF ok
            THEN /\ rows' = [rows EXCEPT ![o.idx] =
                        [o.snap[o.idx] EXCEPT !.status = INACTIVE]]
                 /\ ops' = [ops EXCEPT ![c] =
                        IF i = 0 THEN RemoveReturn(o, "ok") ELSE [o EXCEPT !.idx = i]]
            ELSE /\ ops' = [ops EXCEPT ![c] = RemoveReturn(o, "fail")]
                 /\ UNCHANGED rows
    /\ UNCHANGED <<clock, ticks, doc, lineToken, logSheet, cachedSpaceWeather,
                   cacheTime, fetches, lastAlerts, pushLog, passes, gsw,
                   jobs, history, agg>>

\* sheets the store calls start from: empty, and one built by three
\* subscriptions made one after the other
StoreTables ==
    { <<>>,
      <<Row("U1", "daily", "08:00", ACTIVE), Row("U1", "aurora", "", ACTIVE),
        Row("U2", "aurora", "", ACTIVE)>> }

InitStore ==
    /\ InitCommon
    /\ \E creds \in BOOLEAN, loadOk \in BOOLEAN : doc = initGoogleSheets(creds, loadOk)
    /\ lineToken \in BOOLEAN
    /\ logSheet = TRUE
    /\ rows \in (IF doc = "ready" THEN StoreTables ELSE {<<>>})

NextStore ==
    \/ \E c \in 1..MaxOps : AddStart(c)
    \/ \E c \in 1..MaxOps : AddRead(c)
    \/ \E c \in 1..MaxOps : AddSave(c)
    \/ \E c \in 1..MaxOps : AddAppend(c)
    \/ \E c \in 1..MaxOps : RemoveStart(c)
    \/ \E c \in 1..MaxOps : WebhookUnfollow(c)
    \/ \E c \in 1..MaxOps : RemoveRead(c)
    \/ \E c \in 1..MaxOps : RemoveSave(c)

SpecStore == InitStore /\ [][NextStore]_vars

\* ------------------------------------------------------------ local time
Digits == <<"0", "1", "2", "3", "4", "5", "6", "7", "8", "9">>

\* the '2-digit' rendering of an hour or a minute
Pad2(n) == Digits[(n \div 10) + 1] \o Digits[(n % 10) + 1]

\* Asia/Taipei wall clock (UTC+8, no daylight saving) of an epoch time
LocalTime(t) ==
    LET secs == (t + 8 * 3600) % 86400
    IN [h |-> secs \div 3600, m |-> (secs % 3600) \div 60]

\* now.toLocaleTimeString('zh-TW', {hour: '2-digit', minute: '2-digit', hour12: false})
currentTime(t) == Pad2(LocalTime(t).h) \o ":" \o Pad2(LocalTime(t).m)

\* currentTime.endsWith(':00')
OnTheHour(t) == LocalTime(t).m = 0

\* currentTime.split(':')[0] + ':00'
HourLabel(t) == Pad2(LocalTime(t).h) \o ":00"

\* seconds between the dailyPush timer firings that are followed: the same
\* clock reading again, three minutes, on to 23:00:00 and on to 08:00:20 the
\* next morning from StartTime (22:13:20 local), and twelve hours
DailyDeltas == {0, 180, 2800, 35220, 43200}

\* the job has returned (or, for a request, been answered): locals are dead,
\* what it attempted and answered is kept as history
JobDone(jb, resp) ==
    [jb EXCEPT !.pc = "done", !.response = resp, !.subscribers = <<>>, !.idx = 0,
               !.sw = NoSnap]

\* an exception left the async function: the returned promise is rejected
\* and nobody handles it
JobRaised(jb) ==
    [jb EXCEPT !.pc = "raised", !.subscribers = <<>>, !.idx = 0, !.sw = NoSnap]

\* the user ids of a subscriber list
UserIds(subs) == [k \in 1..Len(subs) |-> subs[k].userId]

\* job j begins: whether every job begun before it has ended
InTurn(j) == \A i \in 1..(j - 1) : jobs[i].pc \in {"done", "raised"}

\* subscribers.filter(s => s.pushTime === hour)
TargetUsers(subs, hour) == SelectSeq(subs, LAMBDA sb : sb.pushTime = hour)

\* formatSpaceWeatherMessage, formatAuroraMessage and formatSolarWindMessage
\* read data.kp.kp: they throw on an object without kp
FormatThrows(sw, type) == ~sw.success /\ type # "iss"

\* ------------------------------------------------------ dailyPush, by step
\* the one-minute timer fires: dailyPush reads the clock and returns, or
\* suspends in getSubscribersByType('daily')
DailyStart(j) ==
    /\ jobs[j].pc = "idle"
    /\ \A i \in 1..(j - 1) : jobs[i].pc # "idle"
    /\ \E d \in DailyDeltas : clock' = clock + d
    /\ LET jb == [jobs[j] EXCEPT !.kind = "daily", !.now = clock', !.type = "daily",
                                 !.inTurn = InTurn(j)]
       IN jobs' = [jobs EXCEPT ![j] =
            IF ~OnTheHour(clock') THEN JobDone(jb, "none")
            ELSE [jb EXCEPT !.pc = "subs", !.hour = HourLabel(clock')]]
    /\ UNCHANGED <<ticks, doc, lineToken, logSheet, cachedSpaceWeather, cacheTime, fetches,
                   lastAlerts, rows, pushLog, passes, gsw, ops, history, agg>>

\* getSubscribersByType('daily') resolves: the list is filtered by hour and
\* dailyPush returns, or suspends inside getSpaceWeather(true)
DailySubs(j) ==
    /\ jobs[j].kind = "daily" /\ jobs[j].pc = "subs"
    /\ \E readOk \in BOOLEAN :
         LET jb == jobs[j]
             targetUsers == TargetUsers(getSubscribersByType(doc, rows, "daily", readOk),
                                        jb.hour)
         IN IF Len(targetUsers) = 0
            THEN /\ jobs' = [jobs EXCEPT ![j] = JobDone(jb, "none")]
                 /\ UNCHANGED fetches
            ELSE /\ jobs' = [jobs EXCEPT ![j] =
                        [jb EXCEPT !.pc = "fetch", !.subscribers = targetUsers,
                                   !.listed = UserIds(targetUsers),
                                   !.fid = fetches + 1, !.gsNow = clock]]
                 /\ fetches' = fetches + 1
    /\ UNCHANGED <<clock, ticks, doc, lineToken, logSheet, cachedSpaceWeather, cacheTime,
                   lastAlerts, rows, pushLog, passes, gsw, ops, history, agg>>

\* getSpaceWeather(true) resolves and the report is formatted
DailyFetched(j) ==
    /\ jobs[j].kind = "daily" /\ jobs[j].pc = "fetch"
    /\ \E ok \in BOOLEAN :
         LET jb == jobs[j]
             result == IF ok THEN Snapshot(jb.fid, KP_THRESHOLD, "B") ELSE Sentinel(jb.fid)
         IN /\ cachedSpaceWeather' = StoreResult(cachedSpaceWeather, result)
            /\ cacheTime' = StoreTime(cacheTime, jb.gsNow, result)
            /\ jobs' = [jobs EXCEPT ![j] =
                 IF FormatThrows(result, "space-weather") THEN JobRaised(jb)
                 ELSE [jb EXCEPT !.pc = "push", !.idx = 1, !.sw = result]]
    /\ UNCHANGED <<clock, ticks, doc, lineToken, logSheet, fetches, lastAlerts, rows,
                   pushLog, passes, gsw, ops, history, agg>>

\* the `await new Promise(resolve => setTimeout(resolve, 100))` statements
\* that follow a linePush in the loop of a fan-out path
PacingAfterPush(kind) == IF kind = "daily" THEN 1 ELSE 0

\* one linePush of the loop (and the 100 ms pause after it) is over
DailyPush(j) ==
    /\ jobs[j].kind = "daily" /\ jobs[j].pc = "push"
    /\ \E o \in LinePushOutcomes(lineToken, doc, logSheet) :
         LET jb == jobs[j]
             u == jb.subscribers[jb.idx].userId
             pushed == [jb EXCEPT !.attempted = Append(@, u),
                                  !.results = Append(@, LinePushResult(o)),
                                  !.pauses = @ + PacingAfterPush(jb.kind)]
         IN /\ pushLog' = LinePushLog(pushLog, u, o)
            /\ jobs' = [jobs EXCEPT ![j] =
                 IF jb.idx < Len(jb.subscribers) THEN [pushed EXCEPT !.idx = @ + 1]
                 ELSE JobDone(pushed, "none")]
    /\ UNCHANGED <<clock, ticks, doc, lineToken, logSheet, cachedSpaceWeather, cacheTime,
                   fetches, lastAlerts, rows, passes, gsw, ops, history, agg>>

\* --------------------------------------- POST /api/admin/broadcast, by step
BroadcastTypes == {"", "daily", "aurora"}

\* !type || !message
MissingInputTypeOnly(type, hasMessage) == type = ""

MissingInput(type, hasMessage) == type = "" \/ ~hasMessage

\* the request arrives: a missing type or message is answered at once
BroadcastStart(j) ==
    /\ jobs[j].pc = "idle"
    /\ \A i \in 1..(j - 1) : jobs[i].pc # "idle"
    /\ \E type \in BroadcastTypes, hasMessage \in BOOLEAN :
         LET jb == [jobs[j] EXCEPT !.kind = "broadcast", !.now = clock, !.type = type,
                                   !.message = hasMessage, !.inTurn = InTurn(j)]
         IN jobs' = [jobs EXCEPT ![j] =
              IF MissingInput(type, hasMessage) THEN JobDone(jb, "missing")
              ELSE [jb EXCEPT !.pc = "subs"]]
    /\ UNCHANGED <<clock, ticks, doc, lineToken, logSheet, cachedSpaceWeather, cacheTime,
                   fetches, lastAlerts, rows, pushLog, passes, gsw, ops, history, agg>>

\* getSubscribersByType(type) resolves
BroadcastSubs(j) ==
    /\ jobs[j].kind = "broadcast" /\ jobs[j].pc = "subs"
    /\ \E readOk \in BOOLEAN :
         LET jb == jobs[j]
             subs == getSubscribersByType(doc, rows, jb.type, readOk)
         IN jobs' = [jobs EXCEPT ![j] =
              IF Len(subs) = 0 THEN JobDone(jb, "counts")
              ELSE [jb EXCEPT !.pc = "push", !.subscribers = subs, !.idx = 1,
                              !.listed = UserIds(subs)]]
    /\ UNCHANGED <<clock, ticks, doc, lineToken, logSheet, cachedSpaceWeather, cacheTime,
                   fetches, lastAlerts, rows, pushLog, passes, gsw, ops, history, agg>>

\* the loop after one linePush: what happens to `sent` and to the loop
FanOutSkipping(jb, u, ok) ==
    LET pushed == [jb EXCEPT !.attempted = Append(@, u), !.results = Append(@, ok),
                             !.sent = IF ok THEN @ + 1 ELSE @]
    IN IF jb.idx + 1 < Len(jb.subscribers) THEN [pushed EXCEPT !.idx = @ + 2]
       ELSE JobDone([pushed EXCEPT !.total = Len(jb.subscribers)], "counts")

FanOutStopOnFailure(jb, u, ok) ==
    LET pushed == [jb EXCEPT !.attempted = Append(@, u), !.results = Append(@, ok),
                             !.sent = IF ok THEN @ + 1 ELSE @,
                             !.pauses = @ + PacingAfterPush(jb.kind)]
    IN IF ok /\ jb.idx < Len(jb.subscribers) THEN [pushed EXCEPT !.idx = @ + 1]
       ELSE JobDone([pushed EXCEPT !.total = Len(jb.subscribers)], "counts")

FanOut(jb, u, ok) ==
    LET pushed == [jb EXCEPT !.attempted = Append(@, u), !.results = Append(@, ok),
                             !.sent = IF ok THEN @ + 1 ELSE @,
                             !.pauses = @ + PacingAfterPush(jb.kind)]
    IN IF jb.idx < Len(jb.subscribers) THEN [pushed EXCEPT !.idx = @ + 1]
       ELSE JobDone([pushed EXCEPT !.total = Len(jb.subscribers)], "counts")

\* one linePush of the loop returns; after the last one the request is
\* answered {success: true, sent, total}
BroadcastPush(j) ==
    /\ jobs[j].kind = "broadcast" /\ jobs[j].pc = "push"
    /\ \E o \in LinePushOutcomes(lineToken, doc, logSheet) :
         LET jb == jobs[j]
             u == jb.subscribers[jb.idx].userId
         IN /\ pushLog' = LinePushLog(pushLog, u, o)
            /\ jobs' = [jobs EXCEPT ![j] =
                 FanOut([jb EXCEPT !.accepted = IF ChannelAccepted(o) THEN @ + 1 ELSE @],
                        u, LinePushResult(o))]
    /\ UNCHANGED <<clock, ticks, doc, lineToken, logSheet, cachedSpaceWeather, cacheTime,
                   fetches, lastAlerts, rows, passes, gsw, ops, history, agg>>

\* ------------------------------------------------------ recordData, by step
\* the next category at or after position i whose sub-record is present in a
\* success snapshot: solarWind, kp and proton always are (defaults), iss is
\* when fetchISS answered; 0 when there is none left
NextCategoryAll(i, iss) == IF i <= Len(Categories) THEN i ELSE 0

NextCategory(i, iss) ==
    LET present == {c \in i..Len(Categories) : Categories[c] # "iss" \/ iss}
    IN IF present = {} THEN 0 ELSE CHOOSE c \in present : \A e \in present : c <= e

\* the five-minute timer fires: recordData returns when doc is null, else
\* suspends inside getSpaceWeather(true)
RecordStart(j) ==
    /\ jobs[j].pc = "idle"
    /\ \A i \in 1..(j - 1) : jobs[i].pc # "idle"
    /\ LET jb == [jobs[j] EXCEPT !.kind = "record", !.now = clock, !.inTurn = InTurn(j)]
       IN IF doc = "null"
          THEN /\ jobs' = [jobs EXCEPT ![j] = JobDone(jb, "none")]
               /\ UNCHANGED fetches
          ELSE /\ jobs' = [jobs EXCEPT ![j] =
                     [jb EXCEPT !.pc = "fetch", !.fid = fetches + 1, !.gsNow = clock]]
               /\ fetches' = fetches + 1
    /\ UNCHANGED <<clock, ticks, doc, lineToken, logSheet, cachedSpaceWeather, cacheTime,
                   lastAlerts, rows, pushLog, passes, gsw, ops, history, agg>>

\* getSpaceWeather(true) resolves.  The sentinel has no sub-record, so every
\* `if (data.x)` is skipped; with a snapshot the first write is the solar
\* wind row, and doc.sheetsByTitle throws into the catch block when the
\* document was never loaded
RecordFetched(j) ==
    /\ jobs[j].kind = "record" /\ jobs[j].pc = "fetch"
    /\ \E ok \in BOOLEAN, iss \in BOOLEAN :
         LET jb == jobs[j]
             result == IF ok THEN Snapshot(jb.fid, KP_THRESHOLD, "B") ELSE Sentinel(jb.fid)
         IN /\ cachedSpaceWeather' = StoreResult(cachedSpaceWeather, result)
            /\ cacheTime' = StoreTime(cacheTime, jb.gsNow, result)
            /\ jobs' = [jobs EXCEPT ![j] =
                 IF ~result.success THEN JobDone(jb, "recorded")
                 ELSE IF doc = "unloaded" THEN JobDone(jb, "caught")
                 ELSE [jb EXCEPT !.pc = "write", !.idx = NextCategory(1, iss),
                                 !.iss = iss, !.sw = result]]
    /\ UNCHANGED <<clock, ticks, doc, lineToken, logSheet, fetches, lastAlerts, rows,
                   pushLog, passes, gsw, ops, history, agg>>

\* one sheet.addRow settles: the next category is written, or the one catch
\* block around all four writes ends the pass
RecordWrite(j) ==
    /\ jobs[j].kind = "record" /\ jobs[j].pc = "write"
    /\ \E ok \in BOOLEAN :
         LET jb == jobs[j]
             cat == Categories[jb.idx]
             next == NextCategory(jb.idx + 1, jb.iss)
             tried == [jb EXCEPT !.attempted = Append(@, cat)]
             wrote == [tried EXCEPT !.written = Append(@, cat)]
         IN IF ok
            THEN /\ history' = [history EXCEPT ![cat] = @ + 1]
                 /\ jobs' = [jobs EXCEPT ![j] =
                      IF next = 0 THEN JobDone(wrote, "recorded")
                      ELSE [wrote EXCEPT !.idx = next]]
            ELSE /\ jobs' = [jobs EXCEPT ![j] = JobDone(tried, "caught")]
                 /\ UNCHANGED history
    /\ UNCHANGED <<clock, ticks, doc, lineToken, logSheet, cachedSpaceWeather, cacheTime,
                   fetches, lastAlerts, rows, pushLog, passes, gsw, ops, agg>>

\* --------------------------------------- POST /api/admin/test-push, by step
TestPushTypes == {"space-weather", "iss"}

\* the request arrives: a missing userId is answered at once, otherwise the
\* handler suspends inside getSpaceWeather(true)
TestPushStart(j) ==
    /\ jobs[j].pc = "idle"
    /\ \A i \in 1..(j - 1) : jobs[i].pc # "idle"
    /\ \E u \in {"", "U1"}, type \in TestPushTypes :
         LET jb == [jobs[j] EXCEPT !.kind = "testpush", !.now = clock, !.type = type,
                                   !.inTurn = InTurn(j)]
         IN IF u = ""
            THEN /\ jobs' = [jobs EXCEPT ![j] = JobDone(jb, "missing")]
                 /\ UNCHANGED fetches
            ELSE /\ jobs' = [jobs EXCEPT ![j] =
                       [jb EXCEPT !.pc = "fetch",
                                  !.subscribers = <<[userId |-> u, pushTime |-> ""]>>,
                                  !.listed = <<u>>,
                                  !.fid = fetches + 1, !.gsNow = clock]]
                 /\ fetches' = fetches + 1
    /\ UNCHANGED <<clock, ticks, doc, lineToken, logSheet, cachedSpaceWeather, cacheTime,
                   lastAlerts, rows, pushLog, passes, gsw, ops, history, agg>>

\* getSpaceWeather(true) resolves and the message is formatted
TestPushFetched(j) ==
    /\ jobs[j].kind = "testpush" /\ jobs[j].pc = "fetch"
    /\ \E ok \in BOOLEAN :
         LET jb == jobs[j]
             result == IF ok THEN Snapshot(jb.fid, KP_THRESHOLD, "B") ELSE Sentinel(jb.fid)
         IN /\ cachedSpaceWeather' = StoreResult(cachedSpaceWeather, result)
            /\ cacheTime' = StoreTime(cacheTime, jb.gsNow, result)
            /\ jobs' = [jobs EXCEPT ![j] =
                 IF FormatThrows(result, jb.type) THEN JobRaised(jb)
                 ELSE [jb EXCEPT !.pc = "push", !.idx = 1, !.sw = result]]
    /\ UNCHANGED <<clock, ticks, doc, lineToken, logSheet, fetches, lastAlerts, rows,
                   pushLog, passes, gsw, ops, history, agg>>

\* linePush returns and the request is answered {success, message}
TestPushPush(j) ==
    /\ jobs[j].kind = "testpush" /\ jobs[j].pc = "push"
    /\ \E o \in LinePushOutcomes(lineToken, doc, logSheet) :
         LET jb == jobs[j]
             u == jb.subscribers[1].userId
             pushed == [jb EXCEPT !.attempted = Append(@, u),
                                  !.results = Append(@, LinePushResult(o))]
         IN /\ pushLog' = LinePushLog(pushLog, u, o)
            /\ jobs' = [jobs EXCEPT ![j] =
                 JobDone(pushed, IF LinePushResult(o) THEN "sent" ELSE "send failed")]
    /\ UNCHANGED <<clock, ticks, doc, lineToken, logSheet, cachedSpaceWeather, cacheTime,
                   fetches, lastAlerts, rows, passes, gsw, ops, history, agg>>

\* sheets the ticks and the admin requests are run against
TickTables ==
    { <<Row("U1", "daily", "08:00", ACTIVE), Row("U2", "daily", "20:00", ACTIVE),
        Row("U3", "daily", "08:00", ACTIVE), Row("U1", "aurora", "", ACTIVE)>>,
      <<Row("U1", "daily", "08:00", ACTIVE), Row("U2", "daily", "08:00", INACTIVE),
        Row("U3", "daily", "20:00", ACTIVE), Row("U2", "aurora", "", INACTIVE)>> }

InitTicks ==
    /\ InitCommon
    /\ \E creds \in BOOLEAN, loadOk \in BOOLEAN : doc = initGoogleSheets(creds, loadOk)
    /\ lineToken = TRUE
    /\ logSheet = TRUE
    /\ rows \in TickTables

NextTicks ==
    \/ \E j \in 1..MaxJobs : DailyStart(j)
    \/ \E j \in 1..MaxJobs : DailySubs(j)
    \/ \E j \in 1..MaxJobs : DailyFetched(j)
    \/ \E j \in 1..MaxJobs : DailyPush(j)
    \/ \E j \in 1..MaxJobs : BroadcastStart(j)
    \/ \E j \in 1..MaxJobs : BroadcastSubs(j)
    \/ \E j \in 1..MaxJobs : BroadcastPush(j)
    \/ \E j \in 1..MaxJobs : RecordStart(j)
    \/ \E j \in 1..MaxJobs : RecordFetched(j)
    \/ \E j \in 1..MaxJobs : RecordWrite(j)
    \/ \E j \in 1..MaxJobs : TestPushStart(j)
    \/ \E j \in 1..MaxJobs : TestPushFetched(j)
    \/ \E j \in 1..MaxJobs : TestPushPush(j)

SpecTicks == InitTicks /\ [][NextTicks]_vars

\* ------------------------------------- getSpaceWeather's aggregation, by source
\* the nine fetchers of the Promise.all; each catches its own errors and
\* returns null
Sources == {"solarWind", "magField", "kp", "xray", "proton", "electron", "cme",
            "nasaFlares", "iss"}

\* Kp readings (tenths) and flare classes the aggregation is run on
AggKpValues == {0, 20, 70}

AggFlareClasses == {"B", "X"}

\* the G-scale label fetchKpIndex derives
GLevel(k) ==
    IF k >= 90 THEN "G5" ELSE IF k >= 80 THEN "G4" ELSE IF k >= 70 THEN "G3"
    ELSE IF k >= 60 THEN "G2" ELSE IF k >= 50 THEN "G1" ELSE "G0"

\* the defaults of lines 821-828
SolarWindDefault == [speed |-> 400, density |-> 4, temperature |-> 100000]

MagneticFieldDefault == [bz |-> 0, bt |-> 5, bx |-> 0, by |-> 0]

KpDefault == [kp |-> 20, level |-> "quiet", gLevel |-> "G0"]

XrayDefault == [flareClass |-> "B", fullClass |-> "B1.0"]

ProtonDefault == [flux |-> 1, sLevel |-> "S0"]

ElectronDefault == [flux |-> 10000]

\* what a fetcher that answered returns
SolarWindReading == [speed |-> 520, density |-> 7, temperature |-> 150000]

MagneticFieldReading == [bz |-> -4, bt |-> 8, bx |-> 1, by |-> 2]

KpReading(k) ==
    [kp |-> k, level |-> IF k > 60 THEN "severe" ELSE IF k > 40 THEN "storm"
                         ELSE IF k > 20 THEN "active" ELSE "quiet",
     gLevel |-> GLevel(k)]

XrayReading(f) == [flareClass |-> f, fullClass |-> f \o "2.0"]

ProtonReading == [flux |-> 12, sLevel |-> "S1"]

ElectronReading == [flux |-> 20000]

\* `x || dflt` on a fetcher's result: null when the fetcher failed
OrDefault(ok, v, dflt) == IF ok THEN v ELSE dflt

\* kp?.kp || 2
KpValue(failed, k) == IF "kp" \in failed \/ k = 0 THEN 20 ELSE k

\* xray?.flareClass
XrayClass(failed, f) == IF "xray" \in failed THEN "undefined" ELSE f

\* whether the try block throws before it builds the result: the
\* dereferences of lines 798, 801, 805 and 808 are reached only on a non-null
\* sub-record
AggregationThrowsOnNull(failed, k, f) == failed # {}

AggregationThrows(failed, k, f) ==
    \/ KpValue(failed, k) >= 50 /\ "kp" \in failed
    \/ XrayClass(failed, f) \in {"X", "M"} /\ "xray" \in failed

\* lines 776-845: the object getSpaceWeather resolves with
BuildSnapshot(failed, k, f) ==
    IF AggregationThrows(failed, k, f) THEN [success |-> FALSE]
    ELSE [success |-> TRUE,
          alertLevel |-> IF KpValue(failed, k) >= 70
                            \/ XrayClass(failed, f) = "X" THEN "severe"
                         ELSE IF KpValue(failed, k) >= 50
                                 \/ "proton" \notin failed THEN "warning"
                         ELSE "normal",
          solarWind |-> OrDefault("solarWind" \notin failed, SolarWindReading,
                                  SolarWindDefault),
          magneticField |-> OrDefault("magField" \notin failed, MagneticFieldReading,
                                      MagneticFieldDefault),
          kp |-> OrDefault("kp" \notin failed, KpReading(k), KpDefault),
          xray |-> OrDefault("xray" \notin failed, XrayReading(f), XrayDefault),
          proton |-> OrDefault("proton" \notin failed, ProtonReading, ProtonDefault),
          electron |-> OrDefault("electron" \notin failed, ElectronReading,
                                 ElectronDefault),
          cme |-> OrDefault("cme" \notin failed, <<"cme">>, <<>>),
          flares |-> OrDefault("nasaFlares" \notin failed, <<"flare">>, <<>>),
          iss |-> "iss" \notin failed]

\* the aggregation starts: each of the nine fetches will answer or fail
AggregateStart ==
    /\ agg.pc = "idle"
    /\ \E failed \in SUBSET Sources, k \in AggKpValues, f \in AggFlareClasses :
         agg' = [agg EXCEPT !.pc = "fetching", !.failed = failed, !.kp = k,
                            !.flareClass = f]
    /\ UNCHANGED <<clock, ticks, doc, lineToken, logSheet, cachedSpaceWeather, cacheTime,
                   fetches, lastAlerts, rows, pushLog, passes, gsw, ops, jobs, history>>

\* Promise.all settles and the try block runs to its return
AggregateSettled ==
    /\ agg.pc = "fetching"
    /\ agg' = [agg EXCEPT !.pc = "done",
                          !.result = BuildSnapshot(agg.failed, agg.kp, agg.flareClass)]
    /\ UNCHANGED <<clock, ticks, doc, lineToken, logSheet, cachedSpaceWeather, cacheTime,
                   fetches, lastAlerts, rows, pushLog, passes, gsw, ops, jobs, history>>

InitSources ==
    /\ InitCommon
    /\ doc = "ready"
    /\ lineToken = TRUE
    /\ logSheet = TRUE
    /\ rows = <<>>

NextSources ==
    \/ AggregateStart
    \/ AggregateSettled

SpecSources == InitSources /\ [][NextSources]_vars

\* ------------------------------------------ handleTextMessage, by step
\* the words that follow the command in a daily-subscription message
ChatTexts == {<<>>, <<"08:00">>, <<"20:00">>, <<"23:00">>, <<"23:00", "20:00">>}

\* text.includes(w)
Includes(text, w) == \E i \in 1..Len(text) : text[i] = w

\* text.includes('08:00') ? '08:00' : text.includes('20:00') ? '20:00' : '08:00'
DailyTimeAsTyped(text) == IF Len(text) = 0 THEN "08:00" ELSE text[1]

DailyTime(text) ==
    IF Includes(text, "08:00") THEN "08:00"
    ELSE IF Includes(text, "20:00") THEN "20:00" ELSE "08:00"

\* addSubscription(u, t, name, pushTime) runs to `await sheet.getRows()`
AddCall(o) ==
    IF doc = "null" THEN Return(o, "ok")
    ELSE IF doc = "unloaded" THEN Return(o, "fail")
    ELSE [o EXCEPT !.pc = "addRead"]

\* the branch handleTextMessage takes once getSpaceWeather() has resolved:
\* the daily subscription calls addSubscription with the parsed time, the
\* cancellation calls removeSubscription(userId)
ChatBranch(o) == IF o.kind = "add" THEN AddCall(o) ELSE RemoveCall(o)

\* a text message of user u arrives: handleTextMessage calls
\* getSpaceWeather(), which answers from a fresh cache or suspends in
\* Promise.all
ChatMessage(c, u, o) ==
    /\ ops[c].pc = "idle"
    /\ \A b \in 1..(c - 1) : ops[b].pc # "idle"
    /\ IF cachedSpaceWeather # NoSnap /\ CacheFresh(clock, cacheTime)
       THEN /\ ops' = [ops EXCEPT ![c] = ChatBranch(o)]
            /\ UNCHANGED fetches
       ELSE /\ ops' = [ops EXCEPT ![c] =
                   [o EXCEPT !.pc = "chatFetch", !.fid = fetches + 1, !.gsNow = clock]]
            /\ fetches' = fetches + 1
    /\ UNCHANGED <<clock, ticks, doc, lineToken, logSheet, cachedSpaceWeather,
                   cacheTime, lastAlerts, rows, pushLog, passes, gsw,
                   jobs, history, agg>>

\* the daily-subscription command, with the words typed after it
ChatSubscribeDaily(c) ==
    \E u \in Users, text \in ChatTexts :
        ChatMessage(c, u, [ops[c] EXCEPT !.kind = "add", !.via = "chat", !.userId = u,
                                         !.type = "daily", !.text = text,
                                         !.pushTime = DailyTime(text)])

\* the cancel-all command
ChatCancelAll(c) ==
    \E u \in Users :
        ChatMessage(c, u, [ops[c] EXCEPT !.kind = "remove", !.via = "chat",
                                         !.userId = u])

\* Promise.all settles inside the handler's getSpaceWeather(): the snapshot
\* is stored and the command's branch runs
ChatFetched(c) ==
    /\ ops[c].pc = "chatFetch"
    /\ \E ok \in BOOLEAN :
         LET o == ops[c]
             result == IF ok THEN Snapshot(o.fid, KP_THRESHOLD, "B") ELSE Sentinel(o.fid)
         IN /\ cachedSpaceWeather' = StoreResult(cachedSpaceWeather, result)
            /\ cacheTime' = StoreTime(cacheTime, o.gsNow, result)
            /\ ops' = [ops EXCEPT ![c] = ChatBranch(o)]
    /\ UNCHANGED <<clock, ticks, doc, lineToken, logSheet, fetches, lastAlerts, rows,
                   pushLog, passes, gsw, jobs, history, agg>>

\* sheets built by chat subscriptions: U3 and U1 have subscribed, U2 has not
ChatTables ==
    { <<Row("U3", "daily", "08:00", ACTIVE), Row("U1", "daily", "08:00", ACTIVE)>> }

InitChat ==
    /\ InitCommon
    /\ doc = "ready"
    /\ lineToken = TRUE
    /\ logSheet = FALSE
    /\ rows \in ChatTables

NextChat ==
    \/ \E c \in 1..MaxOps : ChatSubscribeDaily(c)
    \/ \E c \in 1..MaxOps : ChatCancelAll(c)
    \/ \E c \in 1..MaxOps : ChatFetched(c)
    \/ \E c \in 1..MaxOps : AddRead(c)
    \/ \E c \in 1..MaxOps : AddSave(c)
    \/ \E c \in 1..MaxOps : AddAppend(c)
    \/ \E c \in 1..MaxOps : RemoveRead(c)
    \/ \E c \in 1..MaxOps : RemoveSave(c)
    \/ \E j \in 1..MaxChatJobs : DailyStart(j)
    \/ \E j \in 1..MaxChatJobs : DailySubs(j)
    \/ \E j \in 1..MaxChatJobs : DailyFetched(j)
    \/ \E j \in 1..MaxChatJobs : DailyPush(j)

SpecChat == InitChat /\ [][NextChat]_vars

\* ------------------------------------------------- POST /webhook, by step
\* the events a request body may carry: a text message asking for the full
\* report, a follow, an unfollow, and a message that is not text (no branch
\* of the loop body matches it); all from user U1
HookEvents == {"report", "follow", "unfollow", "sticker"}

EventLists == UNION {[1..n -> HookEvents] : n \in 0..MaxEvents}

\* the loop body for event jb.idx is over: ok when the handler returned,
\* not ok when it threw into the catch block of the loop; the loop goes on
\* to the next event, or the request is answered 200 'OK'
EventEndedStopOnError(jb, ok) ==
    LET ended == [jb EXCEPT !.attempted = Append(@, jb.listed[jb.idx]),
                            !.results = Append(@, ok)]
    IN IF ok /\ jb.idx < Len(jb.listed) THEN [ended EXCEPT !.pc = "next", !.idx = @ + 1]
       ELSE JobDone(ended, "200")

EventEnded(jb, ok) ==
    LET ended == [jb EXCEPT !.attempted = Append(@, jb.listed[jb.idx]),
                            !.results = Append(@, ok)]
    IN IF jb.idx < Len(jb.listed) THEN [ended EXCEPT !.pc = "next", !.idx = @ + 1]
       ELSE JobDone(ended, "200")

\* the request arrives: it is answered at once without the access token,
\* with a bad signature, or with no event; otherwise the loop begins
WebhookStart(j) ==
    /\ jobs[j].pc = "idle"
    /\ \A i \in 1..(j - 1) : jobs[i].pc # "idle"
    /\ \E events \in EventLists, sigOk \in BOOLEAN :
         LET jb == [jobs[j] EXCEPT !.kind = "webhook", !.now = clock, !.listed = events,
                                   !.inTurn = InTurn(j)]
         IN jobs' = [jobs EXCEPT ![j] =
              IF ~lineToken THEN JobDone(jb, "200 no token")
              ELSE IF ~sigOk THEN JobDone(jb, "401")
              ELSE IF Len(events) = 0 THEN JobDone(jb, "200")
              ELSE [jb EXCEPT !.pc = "next", !.idx = 1]]
    /\ UNCHANGED <<clock, ticks, doc, lineToken, logSheet, cachedSpaceWeather, cacheTime,
                   fetches, lastAlerts, rows, pushLog, passes, gsw, ops, history, agg>>

\* the loop body starts on event idx: handleTextMessage calls
\* getSpaceWeather(), handleFollow calls linePush, handleUnfollow calls
\* removeSubscription(userId); an event of another kind is passed over
HookDispatch(j) ==
    /\ jobs[j].kind = "webhook" /\ jobs[j].pc = "next"
    /\ LET jb == jobs[j]
           event == jb.listed[jb.idx]
           called == handleUnfollow([IdleOp EXCEPT !.kind = "remove", !.via = "hook",
                                                   !.userId = "U1"])
       IN CASE event = "report" ->
                 /\ IF cachedSpaceWeather # NoSnap /\ CacheFresh(clock, cacheTime)
                    THEN /\ jobs' = [jobs EXCEPT ![j] = [jb EXCEPT !.pc = "textReply"]]
                         /\ UNCHANGED fetches
                    ELSE /\ jobs' = [jobs EXCEPT ![j] =
                                [jb EXCEPT !.pc = "textFetch", !.fid = fetches + 1,
                                           !.gsNow = clock]]
                         /\ fetches' = fetches + 1
                 /\ UNCHANGED ops
            [] event = "follow" ->
                 /\ jobs' = [jobs EXCEPT ![j] = [jb EXCEPT !.pc = "followPush"]]
                 /\ UNCHANGED <<fetches, ops>>
            [] event = "unfollow" ->
                 /\ ops' = [ops EXCEPT ![j] = called]
                 /\ jobs' = [jobs EXCEPT ![j] =
                       IF called.pc = "done" THEN EventEnded(jb, TRUE)
                       ELSE [jb EXCEPT !.pc = "unfollow"]]
                 /\ UNCHANGED fetches
            [] OTHER ->
                 /\ jobs' = [jobs EXCEPT ![j] = EventEnded(jb, TRUE)]
                 /\ UNCHANGED <<fetches, ops>>
    /\ UNCHANGED <<clock, ticks, doc, lineToken, logSheet, cachedSpaceWeather, cacheTime,
                   lastAlerts, rows, pushLog, passes, gsw, history, agg>>

\* Promise.all settles inside handleTextMessage's getSpaceWeather(): on the
\* sentinel formatSpaceWeatherMessage throws, otherwise lineReply is awaited
HookTextFetched(j) ==
    /\ jobs[j].kind = "webhook" /\ jobs[j].pc = "textFetch"
    /\ \E ok \in BOOLEAN :
         LET jb == jobs[j]
             result == IF ok THEN Snapshot(jb.fid, KP_THRESHOLD, "B") ELSE Sentinel(jb.fid)
         IN /\ cachedSpaceWeather' = StoreResult(cachedSpaceWeather, result)
            /\ cacheTime' = StoreTime(cacheTime, jb.gsNow, result)
            /\ jobs' = [jobs EXCEPT ![j] =
                 IF FormatThrows(result, "space-weather") THEN EventEnded(jb, FALSE)
                 ELSE [jb EXCEPT !.pc = "textReply"]]
    /\ UNCHANGED <<clock, ticks, doc, lineToken, logSheet, fetches, lastAlerts, rows,
                   pushLog, passes, gsw, ops, history, agg>>

\* lineReply settles (it returns true or false, never throws)
HookTextReplied(j) ==
    /\ jobs[j].kind = "webhook" /\ jobs[j].pc = "textReply"
    /\ jobs' = [jobs EXCEPT ![j] = EventEnded(jobs[j], TRUE)]
    /\ UNCHANGED <<clock, ticks, doc, lineToken, logSheet, cachedSpaceWeather, cacheTime,
                   fetches, lastAlerts, rows, pushLog, passes, gsw, ops, history, agg>>

\* the linePush of handleFollow settles
HookFollowPushed(j) ==
    /\ jobs[j].kind = "webhook" /\ jobs[j].pc = "followPush"
    /\ \E o \in LinePushOutcomes(lineToken, doc, logSheet) :
         /\ pushLog' = LinePushLog(pushLog, "U1", o)
         /\ jobs' = [jobs EXCEPT ![j] = EventEnded(jobs[j], TRUE)]
    /\ UNCHANGED <<clock, ticks, doc, lineToken, logSheet, cachedSpaceWeather, cacheTime,
                   fetches, lastAlerts, rows, passes, gsw, ops, history, agg>>

\* getRows settles inside handleUnfollow's removeSubscription
HookRemoveRead(j) ==
    /\ jobs[j].kind = "webhook" /\ jobs[j].pc = "unfollow" /\ ops[j].pc = "remRead"
    /\ \E readOk \in BOOLEAN :
         LET o == ops[j]
             i == NextMatch(rows, o.userId, o.type, 1)
         IN IF ~readOk \/ i = 0
            THEN /\ ops' = [ops EXCEPT ![j] = Return(o, IF readOk THEN "ok" ELSE "fail")]
                 /\ jobs' = [jobs EXCEPT ![j] = EventEnded(jobs[j], TRUE)]
            ELSE /\ ops' = [ops EXCEPT ![j] =
                        [o EXCEPT !.pc = "remSave", !.snap = rows, !.idx = i]]
                 /\ UNCHANGED jobs
    /\ UNCHANGED <<clock, ticks, doc, lineToken, logSheet, cachedSpaceWeather, cacheTime,
                   fetches, lastAlerts, rows, pushLog, passes, gsw, history, agg>>

\* row.save() settles inside handleUnfollow's removeSubscription
HookRemoveSave(j) ==
    /\ jobs[j].kind = "webhook" /\ jobs[j].pc = "unfollow" /\ ops[j].pc = "remSave"
    /\ \E ok \in BOOLEAN :
         LET o == ops[j]
             i == NextMatch(o.snap, o.userId, o.type, o.idx + 1)
         IN /\ rows' = IF ok THEN [rows EXCEPT ![o.idx] =
                                     [o.snap[o.idx] EXCEPT !.status = INACTIVE]]
                       ELSE rows
            /\ IF ok /\ i # 0
               THEN /\ ops' = [ops EXCEPT ![j] = [o EXCEPT !.idx = i]]
                    /\ UNCHANGED jobs
               ELSE /\ ops' = [ops EXCEPT ![j] = Return(o, IF ok THEN "ok" ELSE "fail")]
                    /\ jobs' = [jobs EXCEPT ![j] = EventEnded(jobs[j], TRUE)]
    /\ UNCHANGED <<clock, ticks, doc, lineToken, logSheet, cachedSpaceWeather, cacheTime,
                   fetches, lastAlerts, pushLog, passes, gsw, history, agg>>

InitWebhook ==
    /\ InitCommon
    /\ doc = "ready"
    /\ lineToken \in BOOLEAN
    /\ logSheet = FALSE
    /\ rows = <<Row("U1", "daily", "08:00", ACTIVE), Row("U1", "aurora", "", ACTIVE)>>

NextWebhook ==
    \/ \E j \in 1..MaxHooks : WebhookStart(j)
    \/ \E j \in 1..MaxHooks : HookDispatch(j)
    \/ \E j \in 1..MaxHooks : HookTextFetched(j)
    \/ \E j \in 1..MaxHooks : HookTextReplied(j)
    \/ \E j \in 1..MaxHooks : HookFollowPushed(j)
    \/ \E j \in 1..MaxHooks : HookRemoveRead(j)
    \/ \E j \in 1..MaxHooks : HookRemoveSave(j)

SpecWebhook == InitWebhook /\ [][NextWebhook]_vars

\* ================================================================= claims
\* users with an active row of type t in the sheet
ActiveUsers(t) == {rows[i].userId : i \in {j \in 1..Len(rows) :
                        rows[j].type = t /\ rows[j].status = ACTIVE}}

\* C1: across every execution, overlapping checkAlerts runs included, any two
\* dispatches of an alert of the same topic are more than ALERT_COOLDOWN
\* apart.  A dispatch is a run that called linePush for the topic; its time
\* is the run's `now`, the value it compares and stores.
C1_DispatchesApart ==
    \A p, q \in 1..MaxPasses :
        p # q =>
          /\ (passes[p].sentKp # <<>> /\ passes[q].sentKp # <<>>)
                => Abs(passes[p].now - passes[q].now) > ALERT_COOLDOWN
          /\ (passes[p].sentFlare # <<>> /\ passes[q].sentFlare # <<>>)
                => Abs(passes[p].now - passes[q].now) > ALERT_COOLDOWN

\* C2: a run that sees Kp >= 5 on an armed topic with active subscribers
\* sends the alert exactly once to each of them and stores its time; a later
\* run less than ALERT_COOLDOWN after it sends nothing for the topic.
C2_FireOnceThenSuppress ==
    \A p \in 1..MaxPasses :
        (passes[p].sentKp # <<>> /\ passes[p].pc \in {"flareSubs", "flarePush", "done"}) =>
          /\ \A u \in ActiveUsers("aurora") : Count(passes[p].sentKp, u) = 1
          /\ lastAlerts.kp # 0
          /\ \A q \in (p + 1)..MaxPasses :
                (passes[q].now # 0 /\ passes[q].now - passes[p].now < ALERT_COOLDOWN)
                    => passes[q].sentKp = <<>>

\* the step in which run p tests the Kp condition (line 1726)
KpTested(p) == passes[p].pc = "fetch" /\ passes'[p].pc # "fetch"

\* the step in which run p tests the flare condition (line 1745)
FlareTested(p) ==
    \/ passes[p].pc = "fetch" /\ passes'[p].pc \notin {"fetch", "kpSubs"}
    \/ passes[p].pc \in {"kpSubs", "kpPush"} /\ passes'[p].pc \in {"flareSubs", "done"}

\* the snapshot and the time run p uses in that step
TestedSnapshot(p) ==
    IF passes[p].pc = "fetch"
    THEN (IF cachedSpaceWeather'.id = passes[p].fid THEN cachedSpaceWeather' ELSE NoSnap)
    ELSE passes[p].sw

TestedNow(p) == IF passes[p].pc = "fetch" THEN clock ELSE passes[p].now

\* C3: a topic whose threshold is crossed is treated as armed exactly when
\* the time of the check exceeds the stored last-fired time by more than
\* ALERT_COOLDOWN (at exactly ALERT_COOLDOWN it is still cooling); with
\* last-fired 0, as at process start, it is armed.
C3_ArmedIffCooldownElapsed ==
    [][\A p \in 1..MaxPasses :
         /\ (KpTested(p) /\ TestedSnapshot(p).kp >= KP_THRESHOLD)
              => ((passes'[p].pc = "kpSubs")
                     <=> (clock - lastAlerts.kp >= ALERT_COOLDOWN + 1))
         /\ (FlareTested(p) /\ TestedSnapshot(p).flareClass = "X")
              => ((passes'[p].pc = "flareSubs")
                     <=> (TestedNow(p) - lastAlerts.flare >= ALERT_COOLDOWN + 1))]_vars

\* a run at last-fired + 65 min has gone on to read the subscribers, after
\* another run at exactly last-fired + 60 min was held back
C3_Rearmed ==
    \E p \in 1..MaxPasses :
        /\ passes[p].pc = "kpSubs"
        /\ lastAlerts.kp > 0
        /\ passes[p].now - lastAlerts.kp = ALERT_COOLDOWN + CHECK_INTERVAL

\* C4 as stated: of the unforced getSpaceWeather calls made within one
\* CACHE_DURATION window only the first triggers the upstream fetch, and the
\* later ones return the identical object.
C4_OnlyFirstFetches ==
    \A a, b \in 1..MaxGsw :
        (/\ a < b
         /\ gsw[a].pc # "idle" /\ gsw[b].pc # "idle"
         /\ ~gsw[a].force /\ ~gsw[b].force
         /\ gsw[b].now - gsw[a].now < CACHE_DURATION)
        => /\ ~gsw[b].fetched
           /\ (gsw[a].pc = "done" /\ gsw[b].pc = "done")
                 => gsw[b].result.id = gsw[a].result.id

\* C4 as amended: an unforced call that starts while the cache holds a
\* snapshot whose cacheTime is less than CACHE_DURATION old triggers no
\* upstream fetch and returns the cached object itself.
C4_FreshCacheServes ==
    [][\A c \in 1..MaxGsw :
         (/\ gsw[c].pc = "idle" /\ gsw'[c].pc # "idle"
          /\ ~gsw'[c].force
          /\ cachedSpaceWeather.id # 0
          /\ clock - cacheTime <= CACHE_DURATION - 1)
         => /\ gsw'[c].pc = "done"
            /\ gsw'[c].result = cachedSpaceWeather
            /\ fetches' = fetches
            /\ cachedSpaceWeather' = cachedSpaceWeather]_vars

\* two unforced calls were served the same cached object without a fetch
C4_TwoHits ==
    \E a, b \in 1..MaxGsw :
        /\ a # b
        /\ gsw[a].pc = "done" /\ ~gsw[a].force /\ ~gsw[a].fetched
        /\ gsw[b].pc = "done" /\ ~gsw[b].force /\ ~gsw[b].fetched
        /\ gsw[a].result.id # 0
        /\ gsw[a].result = gsw[b].result
        /\ gsw[a].now # gsw[b].now

\* C5: when the aggregation throws, the call returns the {success:false}
\* sentinel to its caller and the step leaves cachedSpaceWeather and
\* cacheTime as they were.
C5_FailureKeepsCache ==
    [][\A c \in 1..MaxGsw :
         (gsw[c].pc = "fetch" /\ gsw'[c].pc # "fetch" /\ ~gsw'[c].result.success)
         => /\ gsw'[c].pc = "done"
            /\ gsw'[c].result.id = gsw[c].fid
            /\ cachedSpaceWeather' = cachedSpaceWeather
            /\ cacheTime' = cacheTime]_vars

\* a call has returned the sentinel while a valid snapshot stays cached
C5_FailedWithCache ==
    \E c \in 1..MaxGsw :
        /\ gsw[c].pc = "done" /\ gsw[c].fetched
        /\ ~gsw[c].result.success
        /\ cachedSpaceWeather.success
        /\ cachedSpaceWeather.id < gsw[c].result.id

\* ------------------------------------------------------ subscription store
\* the step in which call c of removeSubscription returns to its caller
RemoveReturns(c) ==
    /\ ops[c].pc \in {"idle", "remRead", "remSave"}
    /\ ops'[c].pc = "done"
    /\ ops'[c].kind = "remove"
    /\ ops'[c].result # "none"

AllInactive(rs, u) == \A i \in 1..Len(rs) : rs[i].userId = u => rs[i].status = INACTIVE

InNoList(d, rs, u) ==
    \A t \in StoreTypes :
        \A k \in 1..Len(getSubscribersByType(d, rs, t, TRUE)) :
            getSubscribersByType(d, rs, t, TRUE)[k].userId # u

\* C6: the sheet never holds two records with the same subscriber and the
\* same topic, interleaved addSubscription calls included.
C6_OneRecordPerTopic ==
    \A i, j \in 1..Len(rows) :
        i < j => ~(rows[i].userId = rows[j].userId /\ rows[i].type = rows[j].type)

\* C7: when removeSubscription(subscriberId) with no topic returns, every
\* record of that subscriber is inactive and getSubscriptions(subscriberId)
\* is empty.
C7_RemoveAllInactive ==
    [][\A c \in 1..MaxOps :
         (RemoveReturns(c) /\ ops'[c].type = "")
         => /\ AllInactive(rows', ops'[c].userId)
            /\ getSubscriptions(doc, rows', ops'[c].userId, TRUE) = <<>>]_vars

\* C7 (amended): when removeSubscription(subscriberId) with no topic returns
\* success and no addSubscription of that subscriber has written between the
\* call's read and its return, every record of that subscriber is inactive
\* and getSubscriptions(subscriberId) is empty; a call that returns failure
\* has changed only records it had already saved, to inactive.
C7_RemoveAllInactiveOnSuccess ==
    [][\A c \in 1..MaxOps :
         /\ (RemoveReturns(c) /\ ops'[c].type = "" /\ ops'[c].result = "ok"
                /\ ~ops'[c].dirty)
            => /\ AllInactive(rows', ops'[c].userId)
               /\ getSubscriptions(doc, rows', ops'[c].userId, TRUE) = <<>>
         /\ (RemoveReturns(c) /\ ops'[c].result = "fail") => rows' = rows]_vars

\* a removal of every topic has returned success for a subscriber with two
\* records, both now inactive
C7_AllRemoved ==
    \E c \in 1..MaxOps :
        /\ ops[c].pc = "done" /\ ops[c].kind = "remove" /\ ops[c].type = ""
        /\ ops[c].result = "ok" /\ ~ops[c].dirty
        /\ Cardinality({i \in 1..Len(rows) : rows[i].userId = ops[c].userId}) >= 2
        /\ AllInactive(rows, ops[c].userId)

UnfollowAnswered(c) ==
    /\ ops[c].pc # "done"
    /\ ops'[c].pc = "done"
    /\ ops'[c].via = "webhook"

\* C9: when a /webhook request with an unfollow event is answered, every
\* record of that subscriber is inactive and the subscriber is in no
\* getSubscribersByType list.
C9_UnfollowAllInactive ==
    [][\A c \in 1..MaxOps :
         UnfollowAnswered(c)
         => /\ AllInactive(rows', ops'[c].userId)
            /\ InNoList(doc, rows', ops'[c].userId)]_vars

\* C9 (amended): when a /webhook request with an unfollow event is answered
\* 200 after handleUnfollow ran (access token configured, signature valid),
\* removeSubscription reported success and no addSubscription of that
\* subscriber has written since its read, every record of that subscriber is
\* inactive and the subscriber is in no getSubscribersByType list; a request
\* answered without the event being handled changes no record.
C9_UnfollowHandled ==
    [][\A c \in 1..MaxOps :
         /\ (UnfollowAnswered(c) /\ ops'[c].http = "200" /\ ops'[c].result = "ok"
                /\ ~ops'[c].dirty)
            => /\ AllInactive(rows', ops'[c].userId)
               /\ InNoList(doc, rows', ops'[c].userId)
         /\ (UnfollowAnswered(c) /\ ops'[c].result = "none")
            => /\ rows' = rows
               /\ ops'[c].http \in {"401", "200 no token"}]_vars

\* an unfollow was handled for a subscriber who had records
C9_Unfollowed ==
    \E c \in 1..MaxOps :
        /\ ops[c].pc = "done" /\ ops[c].via = "webhook" /\ ops[c].http = "200"
        /\ ops[c].result = "ok" /\ ~ops[c].dirty
        /\ \E i \in 1..Len(rows) : rows[i].userId = ops[c].userId
        /\ AllInactive(rows, ops[c].userId)

\* C10: when the store is unavailable after startup (credentials absent or
\* the initial connection failed), every addSubscription and
\* removeSubscription call reports success and getSubscriptions and
\* getSubscribersByType return empty lists.
C10_UnavailableIsStub ==
    doc # "ready"
    => /\ \A c \in 1..MaxOps :
            (ops[c].pc = "done" /\ ops[c].result # "none") => ops[c].result = "ok"
       /\ \A u \in Users : getSubscriptions(doc, rows, u, TRUE) = <<>>
       /\ \A t \in StoreTypes : getSubscribersByType(doc, rows, t, TRUE) = <<>>

\* ------------------------------------------------- ticks and admin requests
\* the user ids of the active records of a topic, in sheet order
ActiveIds(rs, t) == UserIds(SelectSeq(rs, LAMBDA r : r.type = t /\ r.status = ACTIVE))

\* the user ids of the active daily records scheduled for an hour label
DueIds(rs, hour) ==
    UserIds(SelectSeq(rs, LAMBDA r : r.type = "daily" /\ r.status = ACTIVE
                                       /\ r.pushTime = hour))

Ended(j) == jobs[j].pc \in {"done", "raised"}

C12_FanOutIsolatesFailures ==
    \A j \in 1..MaxJobs :
        /\ (jobs[j].kind = "broadcast" /\ jobs[j].pc = "push")
           => jobs[j].idx = Len(jobs[j].attempted) + 1
        /\ (jobs[j].kind = "broadcast" /\ jobs[j].response = "counts")
           => /\ jobs[j].attempted = jobs[j].listed
              /\ Len(jobs[j].results) = Len(jobs[j].listed)
              /\ jobs[j].total = Len(jobs[j].listed)
              /\ jobs[j].sent =
                   Cardinality({k \in 1..Len(jobs[j].results) : jobs[j].results[k]})

\* three subscribers, the second push failed, the third was still made:
\* {sent: 2, total: 3}
C12_SecondFailed ==
    \E j \in 1..MaxJobs :
        /\ jobs[j].kind = "broadcast" /\ jobs[j].response = "counts"
        /\ jobs[j].results = <<TRUE, FALSE, TRUE>>
        /\ jobs[j].attempted = <<"U1", "U2", "U3">>
        /\ jobs[j].sent = 2 /\ jobs[j].total = 3

\* rows in the '推播紀錄' sheet
LogTotal(log) == log["U1"] + log["U2"] + log["U3"]

\* C13: every linePush call a fan-out makes appends exactly one row to the
\* delivery log, whether the push succeeded or failed.
C13_OneRecordPerAttempt ==
    [][\A j \in 1..MaxJobs :
         (/\ jobs[j].kind \in {"daily", "broadcast"}
          /\ Len(jobs'[j].attempted) = Len(jobs[j].attempted) + 1)
         => LogTotal(pushLog') = LogTotal(pushLog) + 1]_vars

\* C14: no tick and no request handler ends with an exception leaving it.
C14_NothingEscapes == \A j \in 1..MaxJobs : jobs[j].pc # "raised"

\* the categories whose sub-record a success snapshot holds
PresentCategories(iss) == SelectSeq(Categories, LAMBDA c : c # "iss" \/ iss)

\* C15: a recordData pass that reached its writes has attempted the row of
\* every category present in the snapshot, whichever of them failed.
C15_CategoriesIndependent ==
    \A j \in 1..MaxJobs :
        (jobs[j].kind = "record" /\ jobs[j].pc = "done" /\ jobs[j].attempted # <<>>)
        => jobs[j].attempted = PresentCategories(jobs[j].iss)

\* C17: a dailyPush or recordData run begun after an ended run of the same
\* kind, with the same clock reading, pushes nothing and writes nothing more.
C17_TicksIdempotent ==
    \A i, j \in 1..MaxJobs :
        (/\ i < j
         /\ jobs[i].kind \in {"daily", "record"} /\ jobs[j].kind = jobs[i].kind
         /\ jobs[i].pc = "done" /\ jobs[i].response # "caught" /\ jobs[j].inTurn
         /\ jobs[j].now = jobs[i].now
         /\ jobs[i].attempted # <<>>)
        => jobs[j].attempted = <<>> /\ jobs[j].written = <<>>

\* C18: a broadcast request without a type or without a message is answered
\* {success: false, message} and pushes to nobody; with both it pushes to
\* the subscribers it listed, who are the active subscribers of the type (or
\* nobody when the sheet could not be read), and answers with counts.
C18_BroadcastContract ==
    \A j \in 1..MaxJobs :
        jobs[j].kind = "broadcast"
        => /\ (jobs[j].type = "" \/ ~jobs[j].message)
              => jobs[j].pc = "done" /\ jobs[j].response = "missing"
                 /\ jobs[j].attempted = <<>>
           /\ (jobs[j].type # "" /\ jobs[j].message)
              => /\ jobs[j].listed \in {<<>>, ActiveIds(rows, jobs[j].type)}
                 /\ doc # "ready" => jobs[j].listed = <<>>
                 /\ SubSeq(jobs[j].listed, 1, Len(jobs[j].attempted)) = jobs[j].attempted
                 /\ jobs[j].pc = "done"
                    => /\ jobs[j].response = "counts"
                       /\ Len(jobs[j].attempted) = Len(jobs[j].listed)
                       /\ jobs[j].sent <= jobs[j].total

\* one request was refused for its missing message, another pushed to the
\* two active daily subscribers and skipped the inactive one
C18_RefusedAndDelivered ==
    \E i, j \in 1..MaxJobs :
        /\ jobs[i].kind = "broadcast" /\ jobs[i].response = "missing"
        /\ jobs[i].type = "daily" /\ ~jobs[i].message
        /\ jobs[j].kind = "broadcast" /\ jobs[j].response = "counts"
        /\ jobs[j].type = "daily" /\ jobs[j].attempted = <<"U1", "U3">>
        /\ \E r \in 1..Len(rows) :
             rows[r].type = "daily" /\ rows[r].userId = "U2" /\ rows[r].status = INACTIVE

\* C16: whichever sources fail, the aggregation resolves with a success
\* snapshot in which every failed source's sub-record is its default
\* (cme and flares the empty list) and every other sub-record is the
\* fetcher's reading.
C16_DefaultsOnFailure ==
    agg.pc = "done"
    => /\ agg.result.success
       /\ agg.result.solarWind =
            (IF "solarWind" \in agg.failed THEN SolarWindDefault ELSE SolarWindReading)
       /\ agg.result.magneticField =
            (IF "magField" \in agg.failed THEN MagneticFieldDefault
             ELSE MagneticFieldReading)
       /\ agg.result.kp =
            (IF "kp" \in agg.failed THEN KpDefault ELSE KpReading(agg.kp))
       /\ agg.result.xray =
            (IF "xray" \in agg.failed THEN XrayDefault ELSE XrayReading(agg.flareClass))
       /\ agg.result.proton =
            (IF "proton" \in agg.failed THEN ProtonDefault ELSE ProtonReading)
       /\ agg.result.electron =
            (IF "electron" \in agg.failed THEN ElectronDefault ELSE ElectronReading)
       /\ ("cme" \in agg.failed => agg.result.cme = <<>>)
       /\ ("nasaFlares" \in agg.failed => agg.result.flares = <<>>)

\* every source failed and the snapshot is still a success, all defaults
C16_AllSourcesFailed ==
    /\ agg.pc = "done"
    /\ agg.failed = Sources
    /\ agg.result.success
    /\ agg.result.kp = KpDefault
    /\ agg.result.cme = <<>>

\* got holds one entry per active record of topic t, in sheet order, with
\* that record's user id and schedule, and nothing else
ExactlyActive(got, rs, t) ==
    LET idx == {i \in 1..Len(rs) : rs[i].type = t /\ rs[i].status = ACTIVE}
    IN /\ Len(got) = Cardinality(idx)
       /\ \A k \in 1..Len(got) :
            \E i \in idx :
              /\ got[k] = [userId |-> rs[i].userId, pushTime |-> rs[i].pushTime]
              /\ Cardinality({e \in idx : e < i}) = k - 1

\* C19: the list getSubscribersByType(topic) resolves with after reading the
\* sheet is exactly the active records of the topic: no inactive record, no
\* record of another topic, every active one; a broadcast fans out over that
\* list.  When the sheet cannot be read the list is empty.
C19_ExactlyActiveOfTopic ==
    /\ \A t \in StoreTypes :
         /\ getSubscribersByType(doc, rows, t, FALSE) = <<>>
         /\ doc # "ready" => getSubscribersByType(doc, rows, t, TRUE) = <<>>
         /\ doc = "ready"
            => ExactlyActive(getSubscribersByType(doc, rows, t, TRUE), rows, t)
    /\ \A j \in 1..MaxJobs :
         (jobs[j].kind = "broadcast" /\ jobs[j].pc = "push")
         => /\ doc = "ready"
            /\ ExactlyActive(jobs[j].subscribers, rows, jobs[j].type)

\* a broadcast is fanning out over the active daily records of a sheet that
\* also holds an inactive daily record and a record of another topic
C19_ListedFromMixedSheet ==
    \E j \in 1..MaxJobs :
        /\ jobs[j].kind = "broadcast" /\ jobs[j].pc = "push" /\ jobs[j].type = "daily"
        /\ UserIds(jobs[j].subscribers) = <<"U1", "U3">>
        /\ \E r, q \in 1..Len(rows) :
             /\ rows[r].type = "daily" /\ rows[r].status = INACTIVE
             /\ rows[q].type = "aurora"

\* the users of a topic's active records
TopicUsers(t) ==
    {rows[i].userId : i \in {r \in 1..Len(rows) : rows[r].type = t /\ rows[r].status = ACTIVE}}

ChatSchedules == {"08:00", "20:00"}

\* C21: a daily-report subscription made through the chat command stores
\* 08:00 or 20:00 (08:00 when the command names another time or none), and
\* a dailyPush run at any other full hour delivers to no such subscriber
C21_ChatDailySchedules ==
    /\ \A c \in 1..MaxOps :
         ops[c].kind = "add" /\ ops[c].via = "chat" =>
            /\ ops[c].pushTime \in ChatSchedules
            /\ ~Includes(ops[c].text, "08:00") /\ ~Includes(ops[c].text, "20:00")
                  => ops[c].pushTime = "08:00"
    /\ \A i \in 1..Len(rows) :
         rows[i].type = "daily" => rows[i].pushTime \in ChatSchedules
    /\ \A j \in 1..MaxJobs :
         jobs[j].kind = "daily" /\ jobs[j].hour \notin ChatSchedules =>
            jobs[j].listed = <<>> /\ jobs[j].attempted = <<>>

\* a subscription typed with 23:00 is on the sheet and a dailyPush run at
\* 23:00 has ended
C21_OtherHourTick ==
    /\ \E c \in 1..MaxOps :
         /\ ops[c].kind = "add" /\ ops[c].via = "chat" /\ ops[c].result = "ok"
         /\ Includes(ops[c].text, "23:00")
         /\ \E i \in 1..Len(rows) :
              rows[i].userId = ops[c].userId /\ rows[i].type = "daily"
                 /\ rows[i].status = ACTIVE
    /\ \E j \in 1..MaxJobs :
         jobs[j].kind = "daily" /\ jobs[j].hour = "23:00" /\ jobs[j].pc = "done"

\* C22: lastAlerts changes in a checkAlerts pass exactly at the end of a
\* push loop, which a pass enters only when the threshold held on a success
\* snapshot, the topic was armed at the test and getSubscribersByType
\* returned a non-empty list; the timestamp is then set to the pass's `now`
\* whatever the pushes returned; the test and an empty list leave it alone
C22_CooldownSetRule ==
    [][ /\ \A p \in 1..MaxPasses :
             LET a == passes[p]
                 b == passes'[p]
                 last == a.idx = Len(a.subscribers)
             IN /\ a.pc = "fetch" /\ b.pc # "fetch" =>
                     /\ lastAlerts' = lastAlerts
                     /\ b.pc = "kpSubs" <=>
                            KpCrossed(b.sw) /\ Armed(b.now, lastAlerts.kp)
                     /\ b.pc = "flareSubs" =>
                            FlareCrossed(b.sw) /\ Armed(b.now, lastAlerts.flare)
                     /\ b.pc \in {"kpPush", "flarePush"} => FALSE
                /\ a.pc = "kpSubs" /\ b.pc # "kpSubs" =>
                     /\ lastAlerts' = lastAlerts
                     /\ b.pc = "kpPush" <=> b.subscribers # <<>>
                     /\ b.pc = "flareSubs" =>
                            FlareCrossed(a.sw) /\ Armed(a.now, lastAlerts.flare)
                /\ a.pc = "flareSubs" /\ b.pc # "flareSubs" =>
                     /\ lastAlerts' = lastAlerts
                     /\ b.pc = "flarePush" <=> b.subscribers # <<>>
                /\ a.pc = "kpPush" /\ b # a =>
                     /\ lastAlerts' = IF last THEN [lastAlerts EXCEPT !.kp = a.now]
                                      ELSE lastAlerts
                     /\ b.pc = "flareSubs" =>
                            last /\ FlareCrossed(a.sw) /\ Armed(a.now, lastAlerts.flare)
                /\ a.pc = "flarePush" /\ b # a =>
                     lastAlerts' = IF last THEN [lastAlerts EXCEPT !.flare = a.now]
                                   ELSE lastAlerts
        /\ lastAlerts' # lastAlerts =>
             \E p \in 1..MaxPasses :
                /\ passes[p].pc \in {"kpPush", "flarePush"}
                /\ passes[p].idx = Len(passes[p].subscribers)
                /\ passes[p].sw.success
                /\ passes'[p] # passes[p]
      ]_vars

\* a pass has left the aurora loop with every push having returned false,
\* and its time is the aurora timestamp
C22_AllPushesFailed ==
    \E p \in 1..MaxPasses :
        /\ passes[p].pc = "flareSubs"
        /\ Len(passes[p].sentKp) >= 2
        /\ ~passes[p].kpDelivered
        /\ lastAlerts.kp = passes[p].now

\* C23: cachedSpaceWeather and cacheTime are replaced in the same step, so
\* in every state the pair is the initial one or the snapshot and the start
\* time of one and the same refresh; and a cached object has success true
C23_CachePairConsistent ==
    /\ cachedSpaceWeather = NoSnap => cacheTime = 0
    /\ cachedSpaceWeather # NoSnap =>
         /\ cachedSpaceWeather.success
         /\ \E c \in 1..MaxGsw :
              /\ gsw[c].pc = "done" /\ gsw[c].fetched
              /\ gsw[c].result = cachedSpaceWeather
              /\ gsw[c].now = cacheTime

\* a second refresh, begun at a later time than the first, has replaced
\* the pair
C23_PairReplaced ==
    \E a, b \in 1..MaxGsw :
        /\ gsw[a].pc = "done" /\ gsw[a].fetched /\ gsw[a].result.success
        /\ gsw[b].pc = "done" /\ gsw[b].fetched /\ gsw[b].result.success
        /\ gsw[a].now < gsw[b].now
        /\ cachedSpaceWeather = gsw[b].result
        /\ cacheTime = gsw[b].now

\* C24: in every fan-out a 100 ms pause lies between one push and the
\* next: a run that has pushed k times has paused at least k - 1 times
C24_PacedFanOut ==
    \A j \in 1..MaxJobs :
        jobs[j].kind \in {"daily", "broadcast"} /\ Len(jobs[j].attempted) >= 1
           => jobs[j].pauses >= Len(jobs[j].attempted) - 1

\* C25: a fan-out of dailyPush or of a broadcast walks its list in order,
\* one push in flight at a time: what has been attempted is always the
\* first entries of the list, every attempt has returned before the next
\* one is made, and a fan-out that has ended attempted each entry once
C25_InOrderOneAtATime ==
    \A j \in 1..MaxJobs :
        jobs[j].kind \in {"daily", "broadcast"} =>
           /\ Len(jobs[j].attempted) <= Len(jobs[j].listed)
           /\ jobs[j].attempted = SubSeq(jobs[j].listed, 1, Len(jobs[j].attempted))
           /\ jobs[j].pc = "push" =>
                 /\ jobs[j].idx = Len(jobs[j].attempted) + 1
                 /\ Len(jobs[j].results) = Len(jobs[j].attempted)
                 /\ jobs[j].subscribers[jobs[j].idx].userId = jobs[j].listed[jobs[j].idx]
           /\ jobs[j].pc = "done" /\ jobs[j].listed # <<>> =>
                 /\ jobs[j].attempted = jobs[j].listed
                 /\ Len(jobs[j].results) = Len(jobs[j].listed)

\* a dailyPush run and a broadcast have each walked a list of two or more
C25_TwoFanOutsEnded ==
    \E i, j \in 1..MaxJobs :
        /\ jobs[i].kind = "daily" /\ jobs[i].pc = "done"
        /\ Len(jobs[i].listed) >= 2 /\ jobs[i].attempted = jobs[i].listed
        /\ jobs[j].kind = "broadcast" /\ jobs[j].pc = "done"
        /\ Len(jobs[j].listed) >= 3 /\ jobs[j].attempted = jobs[j].listed

\* the record runs that wrote a row of category c
Writers(js, c) ==
    {j \in 1..MaxJobs : js[j].kind = "record"
                        /\ \E k \in 1..Len(js[j].written) : js[j].written[k] = c}

C27_CacheTimeMonotone ==
    [][ /\ cacheTime' >= cacheTime
        /\ \A c \in 1..MaxGsw :
             (gsw[c].pc = "fetch" /\ cachedSpaceWeather' = gsw'[c].result
                /\ cachedSpaceWeather' # cachedSpaceWeather)
             => gsw[c].fid > cachedSpaceWeather.id
      ]_vars

\* C29: linePush returns true exactly when the channel accepted the
\* message, whatever became of the log row: a broadcast has got as many
\* true results as the channel accepted messages, and answers with that
\* number as `sent`
C29_ResultIsAcceptance ==
    \A j \in 1..MaxJobs :
        jobs[j].kind = "broadcast" =>
           /\ Cardinality({k \in 1..Len(jobs[j].results) : jobs[j].results[k]})
                 = jobs[j].accepted
           /\ jobs[j].response = "counts" => jobs[j].sent = jobs[j].accepted

\* user u has an active record of topic t on the sheet
ActiveFor(rs, u, t) ==
    \E i \in 1..Len(rs) : rs[i].userId = u /\ rs[i].type = t /\ rs[i].status = ACTIVE

\* the step issues the push of run j to the next entry of its list
Issues(j) ==
    /\ jobs'[j].pc = "push"
    /\ jobs[j].pc # "push" \/ jobs[j].idx # jobs'[j].idx

\* C28 as stated: a push is issued only to a subscriber whose record of the
\* topic is active at that moment, also when the unsubscribe is handled
\* during the fan-out
C28_ActiveWhenPushed ==
    [][\A j \in 1..MaxChatJobs :
         Issues(j) =>
            ActiveFor(rows', jobs'[j].subscribers[jobs'[j].idx].userId, jobs'[j].type)
      ]_vars

\* C28 as amended: the list a fan-out walks holds only subscribers whose
\* record of the topic was active when getSubscribersByType resolved, and
\* every push goes to the next entry of that list, whatever has been written
\* to the sheet since
C28_ActiveWhenListed ==
    [][\A j \in 1..MaxChatJobs :
         /\ jobs[j].pc = "subs" /\ jobs'[j].pc # "subs" =>
              \A k \in 1..Len(jobs'[j].listed) :
                 ActiveFor(rows, jobs'[j].listed[k], jobs[j].type)
         /\ Issues(j) =>
              /\ jobs'[j].listed = jobs[j].listed \/ jobs[j].pc = "subs"
              /\ jobs'[j].subscribers[jobs'[j].idx].userId
                    = jobs'[j].listed[jobs'[j].idx]
      ]_vars

\* a cancellation by U1 has deactivated the record while the fan-out that
\* listed U1 is still pushing to U3
C28_CancelledMidFanOut ==
    \E j \in 1..MaxChatJobs, c \in 1..MaxOps :
        /\ jobs[j].pc = "push" /\ jobs[j].idx = 1
        /\ jobs[j].listed = <<"U3", "U1">>
        /\ ops[c].kind = "remove" /\ ops[c].userId = "U1" /\ ops[c].result = "ok"
        /\ ~ActiveFor(rows, "U1", "daily")

\* C30 as stated: every /webhook request is answered 200 after each event
\* of its body was handled, in array order
C30_AllEventsThen200 ==
    \A j \in 1..MaxHooks :
        jobs[j].kind = "webhook" =>
           /\ jobs[j].attempted = SubSeq(jobs[j].listed, 1, Len(jobs[j].attempted))
           /\ jobs[j].pc = "done" =>
                 jobs[j].response = "200" /\ jobs[j].attempted = jobs[j].listed

\* C30 as amended: a request that passes the access-token and signature
\* checks has its events handled in array order, one at a time, a throwing
\* handler not stopping the loop, and is answered 200 after the last one; a
\* request that fails a check is answered ('200 no token', 401) with no
\* event handled
C30_CheckedRequestHandled ==
    \A j \in 1..MaxHooks :
        jobs[j].kind = "webhook" =>
           /\ Len(jobs[j].attempted) <= Len(jobs[j].listed)
           /\ jobs[j].attempted = SubSeq(jobs[j].listed, 1, Len(jobs[j].attempted))
           /\ Len(jobs[j].results) = Len(jobs[j].attempted)
           /\ jobs[j].pc # "done" =>
                 jobs[j].response = "none" /\ jobs[j].idx = Len(jobs[j].attempted) + 1
           /\ jobs[j].pc = "done" =>
                 \/ jobs[j].response = "200" /\ lineToken
                       /\ jobs[j].attempted = jobs[j].listed
                 \/ jobs[j].response = "401" /\ lineToken /\ jobs[j].attempted = <<>>
                 \/ jobs[j].response = "200 no token" /\ ~lineToken
                       /\ jobs[j].attempted = <<>>

\* the handler of the first event threw, the second event was handled and
\* the request was answered 200
C30_ErrorThenHandled ==
    \E j \in 1..MaxHooks :
        /\ jobs[j].kind = "webhook" /\ jobs[j].response = "200"
        /\ jobs[j].listed = <<"report", "unfollow">>
        /\ jobs[j].results = <<FALSE, TRUE>>
        /\ ops[j].result = "ok"
        /\ ~ActiveFor(rows, "U1", "daily") /\ ~ActiveFor(rows, "U1", "aurora")

====
